---- MODULE Spec2Model ----
(***************************************************************************)
(* Response-recovery pipeline of the DB advisor (src/src/ai/advisor.rs,    *)
(* src/src/ai/client.rs, src/src/ai/handlers.rs).                          *)
(*                                                                         *)
(* Texts are sequences of characters (one-character strings).  JSON values *)
(* are tagged records; a JSON object is a function from keys (character    *)
(* sequences) to values.  serde_json::Map is the crate's default BTreeMap, *)
(* so an object is iterated in ascending byte order of its keys.           *)
(***************************************************************************)
EXTENDS Integers, Sequences, FiniteSets, TLC

VARIABLES
    doc,        \* the document first handed to clean_and_restructure_response
    arg,        \* argument of the current call of clean_and_restructure_response
    pc,         \* "idle" | "call" | "returned" : position of the restructurer
    depth,      \* nested calls of clean_and_restructure_response made so far
    pass,       \* 1 = first application, 2 = re-application to its own output
    first,      \* result of the first application (kept for comparison)
    out,        \* value returned by the outermost call
    text,       \* the response text handed to the parsing pipeline
    stage,      \* position of generate_advice / parse_text_response
    result,     \* what generate_advice gives its caller
    response,   \* what the handler db_advisor answers
    phase,        \* position of generate_stream
    prompt,       \* the prompt generate_stream was called with
    payload,      \* the bytes the upstream sends on the stream
    pending,      \* the chunks of payload not yet delivered
    buffer,       \* generate_stream: text of the line not yet complete
    full_content, \* generate_stream: accumulated text
    stream_end,   \* how the reading of the stream finished
    calls,        \* the upstream calls made so far
    reply,        \* what the non-streaming call returned
    sresult,      \* what generate_stream gives its caller
    failure       \* the error behind an Err of the client: where it was raised, and why

rvars == <<doc, arg, pc, depth, pass, first, out>>
tvars == <<text, stage, result, response>>
svars == <<phase, prompt, payload, pending, buffer, full_content, stream_end,
           calls, reply, sresult, failure>>
vars == <<doc, arg, pc, depth, pass, first, out, text, stage, result, response,
          phase, prompt, payload, pending, buffer, full_content, stream_end,
          calls, reply, sresult, failure>>

(***************************************************************************)
(* Bounds                                                                  *)
(***************************************************************************)
\* recursion depth after which the call counter saturates
MaxDepth == 3
\* longest response text built from TextAlphabet
MaxTextLen == 4
\* largest number of chunks a stream payload is delivered in
MaxChunks == 2

(***************************************************************************)
(* Characters and keys                                                     *)
(***************************************************************************)
\* the characters used by the model, in ascending UTF-8 byte order; "<e7>" and
\* "<e9>" are the two-byte characters U+00E7 and U+00E9, "<fffd>" is the
\* three-byte replacement character U+FFFD and "<bq>" the backquote (U+0060)
Ascii ==
    << "\t", "\n", "\r", " ", "!", "\"", ",", "-", ".", "/",
       "0", "1", "2", "3", "4", "5", "6", "7", "8", "9", ":",
       "A", "B", "C", "D", "E", "F", "G", "H", "I", "J", "K", "L", "M",
       "N", "O", "P", "Q", "R", "S", "T", "U", "V", "W", "X", "Y", "Z",
       "[", "\\", "]", "_", "<bq>",
       "a", "b", "c", "d", "e", "f", "g", "h", "i", "j", "k", "l", "m",
       "n", "o", "p", "q", "r", "s", "t", "u", "v", "w", "x", "y", "z",
       "{", "}", "<e7>", "<e9>", "<fffd>" >>

CharCode(c) == CHOOSE i \in 1..Len(Ascii) : Ascii[i] = c

\* a < b in the byte order of str / String (the order of BTreeMap<String, _>)
RECURSIVE KeyLt(_, _)
KeyLt(a, b) ==
    IF b = <<>> THEN FALSE
    ELSE IF a = <<>> THEN TRUE
    ELSE IF Head(a) = Head(b) THEN KeyLt(Tail(a), Tail(b))
    ELSE CharCode(Head(a)) < CharCode(Head(b))

kDiagnostic == <<"d","i","a","g","n","o","s","t","i","c">>
kActions    == <<"a","c","t","i","o","n","s","_","r","e","c","o","m","m","a","n","d","e","e","s">>
kRisques    == <<"r","i","s","q","u","e","s">>
kSql        == <<"s","q","l","_","s","u","g","g","e","r","e">>
kNiveau     == <<"n","i","v","e","a","u","_","c","o","n","f","i","a","n","c","e">>
kNotes      == <<"n","o","t","e","s","_","c","o","m","p","l","e","m","e","n","t","a","i","r","e","s">>
kEtatActuel == <<"e","t","a","t","_","a","c","t","u","e","l">>

\* the three sections that belong at top level
HoistedKeys == {kActions, kRisques, kSql}

(***************************************************************************)
(* serde_json::Value                                                       *)
(***************************************************************************)
JNull      == [t |-> "null"]
JBool(b)   == [t |-> "bool", v |-> b]
JNum(lit)  == [t |-> "num", v |-> lit]      \* lit: the literal of the number
JStr(s)    == [t |-> "str", v |-> s]        \* s: sequence of characters
JArr(a)    == [t |-> "arr", v |-> a]        \* a: sequence of values
JObj(m)    == [t |-> "obj", v |-> m]        \* m: function key -> value

IsNull(x) == x.t = "null"
IsObj(x)  == x.t = "obj"
IsNum(x)  == x.t = "num"

EmptyMap == [k \in {} |-> JNull]
MapInsert(m, k, x) == [y \in (DOMAIN m) \cup {k} |-> IF y = k THEN x ELSE m[y]]

\* keys of a map in iteration order (ascending): the i-th key is the one with
\* i-1 smaller keys
SortedKeys(S) ==
    [i \in 1..Cardinality(S) |->
        CHOOSE k \in S : Cardinality({o \in S : KeyLt(o, k)}) = i - 1]

\* Option<Value>
None == [t |-> "none"]
IsSome(o) == o.t # "none"

(***************************************************************************)
(* DbAdvisorResponse and its untagged decoding                             *)
(***************************************************************************)
Structured(d, a, r, s, n, c) ==
    [variant |-> "Structured", diagnostic |-> d, actions_recommandees |-> a,
     risques |-> r, sql_suggere |-> s, niveau_confiance |-> n,
     notes_complementaires |-> c]
Raw(x) == [variant |-> "Raw", value |-> x]

\* Option<Value> field of a struct read from a map: absent or null gives None
OptField(m, k) ==
    IF k \in DOMAIN m /\ ~IsNull(m[k]) THEN m[k] ELSE None

\* the Structured variant can be read from this map
StructuredFromMapOk(m) ==
    /\ {kDiagnostic, kActions, kRisques, kNiveau} \subseteq DOMAIN m
    /\ IsNum(m[kNiveau])

\* a derived struct is also readable from a sequence, field by field
StructuredFromSeqOk(a) ==
    /\ Len(a) \in {5, 6}
    /\ IsNum(a[5])

OptElem(a, i) == IF i <= Len(a) /\ ~IsNull(a[i]) THEN a[i] ELSE None

\* serde_json::from_value::<DbAdvisorResponse>: Structured first, then Raw,
\* which accepts every value
FromValue(x) ==
    IF IsObj(x) /\ StructuredFromMapOk(x.v) THEN
        Structured(x.v[kDiagnostic], x.v[kActions], x.v[kRisques],
                   OptField(x.v, kSql), x.v[kNiveau], OptField(x.v, kNotes))
    ELSE IF x.t = "arr" /\ StructuredFromSeqOk(x.v) THEN
        Structured(x.v[1], x.v[2], x.v[3], OptElem(x.v, 4), x.v[5], OptElem(x.v, 6))
    ELSE Raw(x)

(***************************************************************************)
(* serde_json::from_str                                                    *)
(***************************************************************************)
Ws           == {" ", "\n", "\t", "\r"}
Digits       == {"0", "1", "2", "3", "4", "5", "6", "7", "8", "9"}
HexDigits    == Digits \cup {"a", "b", "c", "d", "e", "f", "A", "B", "C", "D", "E", "F"}
ControlChars == {"\n", "\t", "\r", "<bs>", "<ff>"}

ParseFail     == [ok |-> FALSE, v |-> JNull, i |-> 0, dup |-> {}]
ParseOk(x, i) == [ok |-> TRUE, v |-> x, i |-> i, dup |-> {}]

\* the least index from i on whose character is in C (is not in C), or
\* Len(s) + 1 when there is none
FirstIn(s, i, C) ==
    IF \E j \in i..Len(s) : s[j] \in C
    THEN CHOOSE j \in i..Len(s) : s[j] \in C /\ \A k \in i..(j - 1) : s[k] \notin C
    ELSE Len(s) + 1
FirstNotIn(s, i, C) ==
    IF \E j \in i..Len(s) : s[j] \notin C
    THEN CHOOSE j \in i..Len(s) : s[j] \notin C /\ \A k \in i..(j - 1) : s[k] \in C
    ELSE Len(s) + 1

SkipWs(s, i) == FirstNotIn(s, i, Ws)

SkipDigits(s, i) == FirstNotIn(s, i, Digits)

\* the text has p at index i
StartsWithAt(s, i, p) ==
    i + Len(p) - 1 <= Len(s) /\ SubSeq(s, i, i + Len(p) - 1) = p

\* -? (0 | [1-9][0-9]*) (. [0-9]+)? ([eE] [+-]? [0-9]+)?
ParseNumber(s, i) ==
    LET a      == IF s[i] = "-" THEN i + 1 ELSE i
        intOk  == a <= Len(s) /\ s[a] \in Digits
        b      == IF intOk /\ s[a] = "0" THEN a + 1 ELSE SkipDigits(s, a)
        hasFr  == intOk /\ b <= Len(s) /\ s[b] = "."
        c      == IF hasFr THEN SkipDigits(s, b + 1) ELSE b
        frOk   == ~hasFr \/ c > b + 1
        hasEx  == intOk /\ frOk /\ c <= Len(s) /\ s[c] \in {"e", "E"}
        d      == IF hasEx /\ c + 1 <= Len(s) /\ s[c + 1] \in {"+", "-"}
                  THEN c + 2 ELSE c + 1
        e      == IF hasEx THEN SkipDigits(s, d) ELSE c
        exOk   == ~hasEx \/ e > d
    IN  IF intOk /\ frOk /\ exOk THEN ParseOk(JNum(SubSeq(s, i, e - 1)), e)
        ELSE ParseFail

SimpleEscapes == {"\"", "\\", "/", "b", "f", "n", "r", "t"}
Unescape(e) ==
    CASE e = "b" -> "<bs>"
      [] e = "f" -> "<ff>"
      [] e = "n" -> "\n"
      [] e = "r" -> "\r"
      [] e = "t" -> "\t"
      [] OTHER   -> e

\* a string literal, i being the index after the opening quote or after the
\* last escape; the plain characters up to the next quote, backslash or
\* control character are taken in one step
RECURSIVE ParseStringLoop(_, _, _)
ParseStringLoop(s, i, acc) ==
    LET j   == FirstIn(s, i, {"\"", "\\"} \cup ControlChars)
        run == acc \o SubSeq(s, i, j - 1)
    IN  IF j > Len(s) THEN ParseFail
        ELSE IF s[j] = "\"" THEN ParseOk(JStr(run), j + 1)
        ELSE IF s[j] = "\\" THEN
            IF j + 1 > Len(s) THEN ParseFail
            ELSE IF s[j + 1] \in SimpleEscapes
            THEN ParseStringLoop(s, j + 2, Append(run, Unescape(s[j + 1])))
            ELSE IF /\ s[j + 1] = "u"
                    /\ j + 5 <= Len(s)
                    /\ \A k \in 2..5 : s[j + k] \in HexDigits
            THEN ParseStringLoop(s, j + 6,
                     Append(run, "\\u" \o s[j + 2] \o s[j + 3] \o s[j + 4] \o s[j + 5]))
            ELSE ParseFail
        ELSE ParseFail

RECURSIVE ParseValue(_, _)
RECURSIVE ParseArrayLoop(_, _, _)
RECURSIVE ArrayAfterElement(_, _, _)
RECURSIVE ParseObjectLoop(_, _, _, _)
RECURSIVE ObjectAfterKey(_, _, _, _)
RECURSIVE ObjectAfterValue(_, _, _, _, _)

\* a value starting at index i (whitespace already skipped)
ParseValue(s, i) ==
    IF i > Len(s) THEN ParseFail
    ELSE IF s[i] = "{" THEN
        LET j == SkipWs(s, i + 1)
        IN  IF j <= Len(s) /\ s[j] = "}" THEN ParseOk(JObj(EmptyMap), j + 1)
            ELSE ParseObjectLoop(s, j, EmptyMap, {})
    ELSE IF s[i] = "[" THEN
        LET j == SkipWs(s, i + 1)
        IN  IF j <= Len(s) /\ s[j] = "]" THEN ParseOk(JArr(<<>>), j + 1)
            ELSE ParseArrayLoop(s, j, <<>>)
    ELSE IF s[i] = "\"" THEN ParseStringLoop(s, i + 1, <<>>)
    ELSE IF s[i] = "-" \/ s[i] \in Digits THEN ParseNumber(s, i)
    ELSE IF StartsWithAt(s, i, <<"n", "u", "l", "l">>) THEN ParseOk(JNull, i + 4)
    ELSE IF StartsWithAt(s, i, <<"t", "r", "u", "e">>) THEN ParseOk(JBool(TRUE), i + 4)
    ELSE IF StartsWithAt(s, i, <<"f", "a", "l", "s", "e">>) THEN ParseOk(JBool(FALSE), i + 5)
    ELSE ParseFail

\* the elements of an array, i being the index of the next element
ParseArrayLoop(s, i, acc) == ArrayAfterElement(s, ParseValue(s, i), acc)

\* r is the element just read: a comma, the closing bracket, or an error
ArrayAfterElement(s, r, acc) ==
    LET j == SkipWs(s, r.i)
    IN  IF ~r.ok \/ j > Len(s) THEN ParseFail
        ELSE IF s[j] = "," THEN ParseArrayLoop(s, SkipWs(s, j + 1), Append(acc, r.v))
        ELSE IF s[j] = "]" THEN ParseOk(JArr(Append(acc, r.v)), j + 1)
        ELSE ParseFail

\* the members of an object, i being the index of the next key; a repeated
\* key keeps its last value and is recorded in dup
ParseObjectLoop(s, i, m, dup) ==
    IF i > Len(s) \/ s[i] # "\"" THEN ParseFail
    ELSE ObjectAfterKey(s, ParseStringLoop(s, i + 1, <<>>), m, dup)

\* k is the key just read: the colon and the value
ObjectAfterKey(s, k, m, dup) ==
    LET j == SkipWs(s, k.i)
    IN  IF ~k.ok \/ j > Len(s) \/ s[j] # ":" THEN ParseFail
        ELSE ObjectAfterValue(s, k.v.v, ParseValue(s, SkipWs(s, j + 1)), m, dup)

\* r is the value just read for key: a comma, the closing brace, or an error
ObjectAfterValue(s, key, r, m, dup) ==
    LET j2 == SkipWs(s, r.i)
        m2 == MapInsert(m, key, r.v)
        d2 == IF key \in DOMAIN m THEN dup \cup {key} ELSE dup
    IN  IF ~r.ok \/ j2 > Len(s) THEN ParseFail
        ELSE IF s[j2] = "," THEN ParseObjectLoop(s, SkipWs(s, j2 + 1), m2, d2)
        ELSE IF s[j2] = "}" THEN [ParseOk(JObj(m2), j2 + 1) EXCEPT !.dup = d2]
        ELSE ParseFail

\* the value read must be followed by whitespace only
WholeText(s, r) == IF r.ok /\ SkipWs(s, r.i) > Len(s) THEN r ELSE ParseFail

\* serde_json::from_str::<Value>: one value, then only whitespace
FromStrValue(s) == WholeText(s, ParseValue(s, SkipWs(s, 1)))

\* the DbAdvisorResponse decoded from a parse: it fails only on a syntax
\* error; a repeated field makes the Structured variant fail and leaves Raw
FromParsed(r) ==
    IF ~r.ok THEN [ok |-> FALSE, doc |-> None]
    ELSE IF r.dup \cap {kDiagnostic, kActions, kRisques, kSql, kNiveau, kNotes} # {}
    THEN [ok |-> TRUE, doc |-> Raw(r.v)]
    ELSE [ok |-> TRUE, doc |-> FromValue(r.v)]

\* serde_json::from_str::<DbAdvisorResponse>
FromStr(s) == FromParsed(FromStrValue(s))

(***************************************************************************)
(* clean_and_restructure_response                                          *)
(***************************************************************************)
EmptyArray == JArr(<<>>)

\* a variant of RestructureStructured that leaves an empty object when every
\* entry of diagnostic is hoisted
RestructureStructuredEmptied(s) ==
    LET diagnostic == s.diagnostic
        isObj      == IsObj(diagnostic)
        diag_obj   == IF isObj THEN diagnostic.v ELSE EmptyMap
        clean_diag == [k \in (DOMAIN diag_obj) \ HoistedKeys |-> diag_obj[k]]
        extracted(k) == IF isObj /\ k \in DOMAIN diag_obj THEN diag_obj[k] ELSE None
        clean_diagnostic ==
            IF ~isObj THEN diagnostic
            ELSE IF DOMAIN clean_diag = {} THEN JObj(EmptyMap)
            ELSE JObj(clean_diag)
        final_actions ==
            IF IsSome(extracted(kActions)) THEN extracted(kActions)
            ELSE IF ~IsNull(s.actions_recommandees) THEN s.actions_recommandees
            ELSE EmptyArray
        final_risques ==
            IF IsSome(extracted(kRisques)) THEN extracted(kRisques)
            ELSE IF ~IsNull(s.risques) THEN s.risques
            ELSE EmptyArray
        final_sql ==
            IF IsSome(extracted(kSql)) THEN extracted(kSql)
            ELSE IF IsSome(s.sql_suggere) /\ ~IsNull(s.sql_suggere) THEN s.sql_suggere
            ELSE None
    IN  Structured(clean_diagnostic, final_actions, final_risques, final_sql,
                   s.niveau_confiance, s.notes_complementaires)

\* Structured branch: one call, no recursion
RestructureStructured(s) ==
    LET diagnostic == s.diagnostic
        isObj      == IsObj(diagnostic)
        diag_obj   == IF isObj THEN diagnostic.v ELSE EmptyMap
        clean_diag == [k \in (DOMAIN diag_obj) \ HoistedKeys |-> diag_obj[k]]
        extracted(k) == IF isObj /\ k \in DOMAIN diag_obj THEN diag_obj[k] ELSE None
        clean_diagnostic ==
            IF ~isObj THEN diagnostic
            ELSE IF DOMAIN clean_diag = {} THEN diagnostic
            ELSE JObj(clean_diag)
        final_actions ==
            IF IsSome(extracted(kActions)) THEN extracted(kActions)
            ELSE IF ~IsNull(s.actions_recommandees) THEN s.actions_recommandees
            ELSE EmptyArray
        final_risques ==
            IF IsSome(extracted(kRisques)) THEN extracted(kRisques)
            ELSE IF ~IsNull(s.risques) THEN s.risques
            ELSE EmptyArray
        final_sql ==
            IF IsSome(extracted(kSql)) THEN extracted(kSql)
            ELSE IF IsSome(s.sql_suggere) /\ ~IsNull(s.sql_suggere) THEN s.sql_suggere
            ELSE None
    IN  Structured(clean_diagnostic, final_actions, final_risques, final_sql,
                   s.niveau_confiance, s.notes_complementaires)

\* Raw branch, inner loop over the entries of an object-valued diagnostic
RECURSIVE RawDiagLoop(_, _, _)
RawDiagLoop(st, diag_obj, ks) ==
    IF ks = <<>> THEN st
    ELSE LET k == Head(ks)
             nx == IF k \in HoistedKeys
                   THEN [st EXCEPT !.restructured = MapInsert(@, k, diag_obj[k])]
                   ELSE [st EXCEPT !.diagnostic_obj = MapInsert(@, k, diag_obj[k]),
                                   !.has_diagnostic = TRUE]
         IN  RawDiagLoop(nx, diag_obj, Tail(ks))

\* Raw branch, outer loop over the top-level entries
RECURSIVE RawLoop(_, _, _)
RawLoop(st, obj, ks) ==
    IF ks = <<>> THEN st
    ELSE LET key == Head(ks)
             val == obj[key]
             nx ==
                IF key = kDiagnostic THEN
                    IF IsObj(val)
                    THEN RawDiagLoop(st, val.v, SortedKeys(DOMAIN val.v))
                    ELSE [st EXCEPT !.diagnostic_obj = MapInsert(@, kEtatActuel, val),
                                    !.has_diagnostic = TRUE]
                ELSE IF key \in {kActions, kRisques, kSql, kNiveau, kNotes}
                THEN [st EXCEPT !.restructured = MapInsert(@, key, val)]
                ELSE [st EXCEPT !.diagnostic_obj = MapInsert(@, key, val),
                                !.has_diagnostic = TRUE]
         IN  RawLoop(nx, obj, Tail(ks))

\* the map handed to from_value by the Raw branch
RawRestructured(obj) ==
    LET st == RawLoop([restructured |-> EmptyMap, diagnostic_obj |-> EmptyMap,
                       has_diagnostic |-> FALSE],
                      obj, SortedKeys(DOMAIN obj))
    IN  IF st.has_diagnostic
        THEN MapInsert(st.restructured, kDiagnostic, JObj(st.diagnostic_obj))
        ELSE st.restructured

(***************************************************************************)
(* Text helpers (str)                                                      *)
(***************************************************************************)
WhiteSpace == {" ", "\t", "\n", "\r", "<ff>"}

\* UTF-8 length of a character
Width(c) == IF c \in {"<e7>", "<e9>"} THEN 2 ELSE IF c = "<fffd>" THEN 3 ELSE 1

\* str::len: the sum of the widths
ByteLen(s) ==
    Len(s) + Cardinality({j \in 1..Len(s) : Width(s[j]) = 2})
           + 2 * Cardinality({j \in 1..Len(s) : Width(s[j]) = 3})

\* byte offset (from 0) of the k-th character
ByteOffset(s, k) == ByteLen(SubSeq(s, 1, k - 1))

NotFound == -1
\* str::find / str::rfind of a character: a byte offset, or NotFound
Find(s, c) ==
    IF \E i \in 1..Len(s) : s[i] = c
    THEN ByteOffset(s, CHOOSE i \in 1..Len(s) : s[i] = c /\ \A j \in 1..(i - 1) : s[j] # c)
    ELSE NotFound
RFind(s, c) ==
    IF \E i \in 1..Len(s) : s[i] = c
    THEN ByteOffset(s, CHOOSE i \in 1..Len(s) : s[i] = c /\ \A j \in (i + 1)..Len(s) : s[j] # c)
    ELSE NotFound

\* &s[a..=b] on byte offsets: panics when a > b + 1, when b + 1 is past the
\* end, or when a bound is not a character boundary
ByteSlice(s, a, b) ==
    LET bounds == {ByteOffset(s, k) : k \in 1..(Len(s) + 1)}
    IN  IF a > b + 1 \/ a \notin bounds \/ (b + 1) \notin bounds
        THEN [panic |-> TRUE, v |-> <<>>]
        ELSE [panic |-> FALSE,
              v |-> SubSeq(s, CHOOSE k \in 1..(Len(s) + 1) : ByteOffset(s, k) = a,
                              (CHOOSE k \in 1..(Len(s) + 1) : ByteOffset(s, k) = b + 1) - 1)]

\* str::replace(p, ""): the matches are taken from left to right
RECURSIVE RemoveAll(_, _)
RemoveAll(s, p) ==
    IF \E i \in 1..Len(s) : StartsWithAt(s, i, p) THEN
        LET n == CHOOSE i \in 1..Len(s) :
                     StartsWithAt(s, i, p) /\ \A j \in 1..(i - 1) : ~StartsWithAt(s, j, p)
        IN  SubSeq(s, 1, n - 1) \o RemoveAll(SubSeq(s, n + Len(p), Len(s)), p)
    ELSE s

\* str::lines: split at "\n", a "\r" before it dropped, no final empty line
RECURSIVE Lines(_)
Lines(s) ==
    IF s = <<>> THEN <<>>
    ELSE IF \E i \in 1..Len(s) : s[i] = "\n" THEN
        LET n    == CHOOSE i \in 1..Len(s) : s[i] = "\n" /\ \A j \in 1..(i - 1) : s[j] # "\n"
            line == SubSeq(s, 1, n - 1)
            bare == IF line # <<>> /\ line[Len(line)] = "\r"
                    THEN SubSeq(line, 1, Len(line) - 1) ELSE line
        IN  <<bare>> \o Lines(SubSeq(s, n + 1, Len(s)))
    ELSE <<s>>

\* str::trim
TrimStart(s) == SubSeq(s, FirstNotIn(s, 1, WhiteSpace), Len(s))
TrimEnd(s) ==
    IF \E j \in 1..Len(s) : s[j] \notin WhiteSpace
    THEN SubSeq(s, 1, CHOOSE j \in 1..Len(s) :
                          s[j] \notin WhiteSpace /\ \A k \in (j + 1)..Len(s) : s[k] \in WhiteSpace)
    ELSE <<>>
Trim(s) == TrimEnd(TrimStart(s))

\* [&str]::join("\n")
RECURSIVE JoinLines(_)
JoinLines(ls) ==
    IF ls = <<>> THEN <<>>
    ELSE IF Len(ls) = 1 THEN ls[1]
    ELSE ls[1] \o <<"\n">> \o JoinLines(Tail(ls))

UpperLetters == <<"A", "B", "C", "D", "E", "F", "G", "H", "I", "J", "K", "L", "M", "N", "O", "P", "Q", "R", "S", "T", "U", "V", "W", "X", "Y", "Z">>
LowerLetters == <<"a", "b", "c", "d", "e", "f", "g", "h", "i", "j", "k", "l", "m", "n", "o", "p", "q", "r", "s", "t", "u", "v", "w", "x", "y", "z">>
ToAsciiLower(c) ==
    IF \E i \in 1..26 : UpperLetters[i] = c
    THEN LowerLetters[CHOOSE i \in 1..26 : UpperLetters[i] = c]
    ELSE c
\* str::eq_ignore_ascii_case
EqIgnoreAsciiCase(a, b) ==
    Len(a) = Len(b) /\ \A i \in 1..Len(a) : ToAsciiLower(a[i]) = ToAsciiLower(b[i])

Contains(s, c) == \E i \in 1..Len(s) : s[i] = c

(***************************************************************************)
(* clean_text, extract_json_from_text, parse_text_response                 *)
(***************************************************************************)
FenceJsonLower == <<"<bq>", "<bq>", "<bq>", "j", "s", "o", "n">>
FenceJsonUpper == <<"<bq>", "<bq>", "<bq>", "J", "S", "O", "N">>
Fence          == <<"<bq>", "<bq>", "<bq>">>

HeadingTitles ==
    { <<"D", "i", "a", "g", "n", "o", "s", "t", "i", "c">>,
      <<"A", "c", "t", "i", "o", "n", "s", " ", "r", "e", "c", "o", "m", "m", "a", "n", "d", "<e9>", "e", "s">>,
      <<"A", "c", "t", "i", "o", "n", "s", " ", "r", "e", "c", "o", "m", "m", "a", "n", "d", "e", "e", "s">>,
      <<"R", "i", "s", "q", "u", "e", "s">>,
      <<"S", "Q", "L", " ", "s", "u", "g", "g", "<e9>", "r", "<e9>">>,
      <<"S", "Q", "L", " ", "s", "u", "g", "g", "e", "r", "e">> }

\* a variant of IsTitleLine that never looks for a brace
IsTitleLineWhateverBrace(line) ==
    LET trimmed == Trim(line)
    IN  \/ \E h \in HeadingTitles : EqIgnoreAsciiCase(trimmed, h)
        \/ StartsWithAt(trimmed, 1, <<"D", "i", "a", "g", "n", "o", "s", "t", "i", "c">>)
        \/ StartsWithAt(trimmed, 1, <<"A", "c", "t", "i", "o", "n", "s">>)

\* the filter of clean_text drops this line
IsTitleLine(line) ==
    LET trimmed == Trim(line)
    IN  \/ \E h \in HeadingTitles : EqIgnoreAsciiCase(trimmed, h)
        \/ StartsWithAt(trimmed, 1, <<"D", "i", "a", "g", "n", "o", "s", "t", "i", "c">>) /\ ~Contains(trimmed, "{")
        \/ StartsWithAt(trimmed, 1, <<"A", "c", "t", "i", "o", "n", "s">>) /\ ~Contains(trimmed, "{")

clean_text(t) ==
    LET c1   == RemoveAll(t, FenceJsonLower)
        c2   == RemoveAll(c1, FenceJsonUpper)
        c3   == RemoveAll(c2, Fence)
        kept == SelectSeq(Lines(c3), LAMBDA line : ~IsTitleLine(line))
    IN  Trim(JoinLines(kept))

\* a variant of ScanLoop that counts every brace, inside strings too
RECURSIVE ScanLoopNaive(_, _, _, _)
ScanLoopNaive(s, i, dep, in_string) ==
    LET j == FirstIn(s, i, {"{", "}"})
    IN  IF j > Len(s) THEN NotFound
        ELSE IF s[j] = "{" THEN ScanLoopNaive(s, j + 1, dep + 1, in_string)
        ELSE IF dep - 1 = 0 THEN ByteOffset(s, j)
        ELSE ScanLoopNaive(s, j + 1, dep - 1, in_string)

\* the scan of extract_json_from_text over slice s from its character i, with
\* escape_next false: the byte offset in the slice of the closing brace, or
\* NotFound.  The characters that change nothing are passed in one step, and
\* so is the character after a backslash; byte_pos is the offset of s[j].
RECURSIVE ScanLoop(_, _, _, _)
ScanLoop(s, i, dep, in_string) ==
    LET j == FirstIn(s, i, IF in_string THEN {"\\", "\""} ELSE {"\\", "\"", "{", "}"})
    IN  IF j > Len(s) THEN NotFound
        ELSE IF s[j] = "\\" THEN ScanLoop(s, j + 2, dep, in_string)
        ELSE IF s[j] = "\"" THEN ScanLoop(s, j + 1, dep, ~in_string)
        ELSE IF s[j] = "{" THEN ScanLoop(s, j + 1, dep + 1, in_string)
        ELSE IF dep - 1 = 0 THEN ByteOffset(s, j)
        ELSE ScanLoop(s, j + 1, dep - 1, in_string)

\* Option<String>, with the panic a slice could raise
SomeText(sl) == [kind |-> IF sl.panic THEN "panic" ELSE "some", v |-> sl.v]
NoText       == [kind |-> "none", v |-> <<>>]

\* a variant of ExtractFrom without the search of the last "}" when the scan
\* does not balance
ExtractFromBalancedOnly(cleaned, start) ==
    LET first_brace == CHOOSE i \in 1..Len(cleaned) : ByteOffset(cleaned, i) = start
        end_offset  == ScanLoop(SubSeq(cleaned, first_brace, Len(cleaned)), 1, 0, FALSE)
    IN  IF end_offset # NotFound
        THEN SomeText(ByteSlice(cleaned, start, start + end_offset))
        ELSE NoText

\* extract_json_from_text once the text is cleaned and the first brace found
ExtractFrom(cleaned, start) ==
    LET first_brace == CHOOSE i \in 1..Len(cleaned) : ByteOffset(cleaned, i) = start
        end_offset  == ScanLoop(SubSeq(cleaned, first_brace, Len(cleaned)), 1, 0, FALSE)
        last_brace  == RFind(cleaned, "}")
    IN  IF end_offset # NotFound
        THEN SomeText(ByteSlice(cleaned, start, start + end_offset))
        ELSE IF last_brace # NotFound /\ last_brace > start
        THEN SomeText(ByteSlice(cleaned, start, last_brace))
        ELSE NoText

ExtractCleaned(cleaned) ==
    IF Find(cleaned, "{") = NotFound THEN NoText
    ELSE ExtractFrom(cleaned, Find(cleaned, "{"))

extract_json_from_text(t) == ExtractCleaned(clean_text(t))

\* a variant of BraceSpan that takes the whole cleaned text when a brace is
\* missing, in place of the error of advisor.rs 846
BraceSpanOrWholeText(cleaned) ==
    LET json_start == Find(cleaned, "{")
        json_end   == RFind(cleaned, "}")
    IN  IF json_start # NotFound /\ json_end # NotFound
        THEN SomeText(ByteSlice(cleaned, json_start, json_end))
        ELSE [kind |-> "some", v |-> cleaned]

\* the span first "{" .. last "}" of the cleaned text (advisor.rs 838-847)
BraceSpan(cleaned) ==
    LET json_start == Find(cleaned, "{")
        json_end   == RFind(cleaned, "}")
    IN  IF json_start # NotFound /\ json_end # NotFound
        THEN SomeText(ByteSlice(cleaned, json_start, json_end))
        ELSE [kind |-> "err", v |-> <<>>]

\* json_str of parse_text_response (advisor.rs 824-848): the extracted text,
\* else the span first "{" .. last "}", else the error; kind is "some",
\* "panic" or "err"
JsonStrOr(ex, t) == IF ex.kind # "none" THEN ex ELSE BraceSpan(clean_text(t))

json_str_of(t) == JsonStrOr(extract_json_from_text(t), t)

\* the map rebuilt by the generic-value path (advisor.rs 900-934)
GenericRestructured(obj) ==
    LET diag_obj == obj[kDiagnostic].v
        clean    == [k \in (DOMAIN diag_obj) \ HoistedKeys |-> diag_obj[k]]
        m0 == MapInsert(EmptyMap, kDiagnostic, JObj(clean))
        m1 == MapInsert(m0, kActions,
                        IF kActions \in DOMAIN diag_obj THEN diag_obj[kActions] ELSE EmptyArray)
        m2 == MapInsert(m1, kRisques,
                        IF kRisques \in DOMAIN diag_obj THEN diag_obj[kRisques] ELSE EmptyArray)
        m3 == IF kSql \in DOMAIN diag_obj THEN MapInsert(m2, kSql, diag_obj[kSql]) ELSE m2
        others == (DOMAIN obj) \ {kDiagnostic, kActions, kRisques, kSql}
    IN  [k \in (DOMAIN m3) \cup others |-> IF k \in others THEN obj[k] ELSE m3[k]]

\* the document the generic-value path hands to the restructurer (871-953)
GenericParsed(json_value) ==
    IF /\ IsObj(json_value)
       /\ kDiagnostic \in DOMAIN json_value.v
       /\ IsObj(json_value.v[kDiagnostic])
       /\ (DOMAIN json_value.v[kDiagnostic].v) \cap HoistedKeys # {}
    THEN FromValue(JObj(GenericRestructured(json_value.v)))
    ELSE FromValue(json_value)

Take(s, n) == IF Len(s) <= n THEN s ELSE SubSeq(s, 1, n)

\* a variant of FallbackDoc that embeds the whole text
FallbackDocWholeText(t) ==
    Structured(JStr(<<"E", "r", "r", "e", "u", "r", " ", "d", "e", " ", "p", "a", "r", "s", "i", "n", "g", " ", "J", "S", "O", "N", ".", " ", "T", "e", "x", "t", "e", " ", "r", "e", "<e7>", "u", ":", " ">> \o t),
               EmptyArray, EmptyArray, None, JNum(<<"0", ".", "0">>), None)

FallbackPrefixLen == 500
\* the basic response built from the text (advisor.rs 976-984)
FallbackDoc(t) ==
    Structured(JStr(<<"E", "r", "r", "e", "u", "r", " ", "d", "e", " ", "p", "a", "r", "s", "i", "n", "g", " ", "J", "S", "O", "N", ".", " ", "T", "e", "x", "t", "e", " ", "r", "e", "<e7>", "u", ":", " ">> \o Take(t, FallbackPrefixLen)),
               EmptyArray, EmptyArray, None, JNum(<<"0", ".", "0">>), None)

\* parse_text_response from the parse r of json_str on (advisor.rs 851-984)
DecodeOutcome(t, r) ==
    IF FromParsed(r).ok THEN [kind |-> "restructure", doc |-> FromParsed(r).doc]
    ELSE IF r.ok THEN [kind |-> "restructure", doc |-> GenericParsed(r.v)]
    ELSE [kind |-> "fallback", doc |-> FallbackDoc(t)]

JsonStrOutcome(t, js) ==
    IF js.kind = "err" THEN [kind |-> "err", doc |-> None]
    ELSE IF js.kind = "panic" THEN [kind |-> "panic", doc |-> None]
    ELSE DecodeOutcome(t, FromStrValue(js.v))

\* parse_text_response up to its first call of the restructurer:
\*   "err"         Err(..) returned
\*   "panic"       a slice panicked
\*   "restructure" Ok(clean_and_restructure_response(doc)) is to be returned
\*   "fallback"    Ok(doc), the basic response, is returned
parse_text_outcome(t) == JsonStrOutcome(t, json_str_of(t))

\* Result<DbAdvisorResponse>, or the panic that aborts the request
NoResult    == [kind |-> "none", doc |-> None]
OkResult(d) == [kind |-> "ok", doc |-> d]
ErrResult   == [kind |-> "err", doc |-> None]
PanicResult == [kind |-> "panic", doc |-> None]

\* Result<String> of the client calls
NoReply  == [kind |-> "none", v |-> <<>>]
SOk(t)   == [kind |-> "ok", v |-> t]
SErr     == [kind |-> "err", v |-> <<>>]

(***************************************************************************)
(* The handler db_advisor (handlers.rs 142-222)                            *)
(***************************************************************************)
DigitSeq == <<"0", "1", "2", "3", "4", "5", "6", "7", "8", "9">>
DigitValue(c) == (CHOOSE i \in 1..10 : DigitSeq[i] = c) - 1
RECURSIVE NatOfDigits(_)
NatOfDigits(ds) ==
    IF ds = <<>> THEN 0
    ELSE 10 * NatOfDigits(SubSeq(ds, 1, Len(ds) - 1)) + DigitValue(ds[Len(ds)])

\* the parts of a number literal: the digits of the mantissa without the
\* point, the number of digits before the point, the exponent
ExpMark(lit)    == FirstIn(lit, 1, {"e", "E"})
Mantissa(lit)   == SubSeq(lit, IF lit[1] = "-" THEN 2 ELSE 1, ExpMark(lit) - 1)
IntDigits(lit)  == FirstIn(Mantissa(lit), 1, {"."}) - 1
AllDigits(lit)  == SelectSeq(Mantissa(lit), LAMBDA c : c # ".")
Exponent(lit)   ==
    IF ExpMark(lit) > Len(lit) THEN 0
    ELSE IF lit[ExpMark(lit) + 1] = "-"
    THEN 0 - NatOfDigits(SubSeq(lit, ExpMark(lit) + 2, Len(lit)))
    ELSE IF lit[ExpMark(lit) + 1] = "+"
    THEN NatOfDigits(SubSeq(lit, ExpMark(lit) + 2, Len(lit)))
    ELSE NatOfDigits(SubSeq(lit, ExpMark(lit) + 1, Len(lit)))
LeadDigit(lit)  == FirstNotIn(AllDigits(lit), 1, {"0"})
\* the power of ten of the first digit that is not 0
Magnitude(lit)  == Exponent(lit) + IntDigits(lit) - LeadDigit(lit)

F32MaxMagnitude == 38
\* the literal, read as an f32, is infinite: the f32 go up to 3.4028235e38
\* (literals between that and 4e38 are taken as finite here)
OverflowsF32(lit) ==
    /\ LeadDigit(lit) <= Len(AllDigits(lit))
    /\ \/ Magnitude(lit) > F32MaxMagnitude
       \/ /\ Magnitude(lit) = F32MaxMagnitude
          /\ AllDigits(lit)[LeadDigit(lit)] \in {"4", "5", "6", "7", "8", "9"}

\* json!() of the f32 niveau_confiance (handlers.rs 185): the number, or null
\* for an f32 that is not finite.  The literal n.v stands for the f32 nearest
\* to it.
ValueFromF32(n) == IF OverflowsF32(n.v) THEN JNull ELSE n

\* advice_json (handlers.rs 172-199)
AdviceJson(advice) ==
    IF advice.variant = "Raw" THEN advice.value
    ELSE JObj([k \in {kDiagnostic, kActions, kRisques, kNiveau}
                       \cup (IF IsSome(advice.sql_suggere) THEN {kSql} ELSE {})
                       \cup (IF IsSome(advice.notes_complementaires) THEN {kNotes} ELSE {})
                 |-> CASE k = kDiagnostic -> advice.diagnostic
                       [] k = kActions    -> advice.actions_recommandees
                       [] k = kRisques    -> advice.risques
                       [] k = kNiveau     -> ValueFromF32(advice.niveau_confiance)
                       [] k = kSql        -> advice.sql_suggere
                       [] k = kNotes      -> advice.notes_complementaires])

\* DbAdvisorHttpResponse with its status
NoResponse      == [status |-> 0, success |-> FALSE, advice |-> None, error |-> ""]
HttpAdvice(v)   == [status |-> 200, success |-> TRUE, advice |-> v, error |-> ""]
HttpError(e)    == [status |-> 500, success |-> FALSE, advice |-> None, error |-> e]

\* format!("{}", e) of the error generate_advice returned: anyhow displays the
\* outermost context only, which is the message of the place that raised the
\* error (client.rs 176, 271, 283, 297; advisor.rs 846)
ErrorDisplay(f) ==
    CASE f.site = "send"   -> "Erreur lors de l'envoi de la requete a l'API Mistral"
      [] f.site = "status" -> "Erreur API Mistral (status): body"
      [] f.site = "read"   -> "Erreur de lecture du stream"
      [] OTHER             -> "Aucun JSON valide trouve dans la reponse"

\* the anyhow error of the client: the place that raised it, whose context is
\* its message, and the cause it wraps ("timeout" when the reqwest error
\* underneath is a timeout)
NoFailure       == [site |-> "none", cause |-> "none"]
Failure(s, c)   == [site |-> s, cause |-> c]
SendCauses      == {"timeout", "connect"}
ReadCauses      == {"timeout", "transport"}

\* no request to the upstream is in progress
NoStream ==
    /\ phase = "idle"
    /\ prompt = "none"
    /\ payload = <<>>
    /\ pending = <<>>
    /\ buffer = <<>>
    /\ full_content = <<>>
    /\ stream_end = "none"
    /\ calls = <<>>
    /\ reply = NoReply
    /\ sresult = NoReply
    /\ failure = NoFailure

(***************************************************************************)
(* Input universe of the restructurer                                      *)
(***************************************************************************)
kRisque == <<"r","i","s","q","u","e">>
kEtat  == <<"e","t","a","t">>
kAutre == <<"a","u","t","r","e">>

Absent == [t |-> "absent"]
\* the map holding the entries of f that are present
MkMap(f) == [k \in {x \in DOMAIN f : f[x] # Absent} |-> f[k]]

SectionX == JArr(<<JStr(<<"x">>)>>)     \* a section value nested in diagnostic
SectionY == JArr(<<JStr(<<"y">>)>>)     \* a section value at top level
NestedChoice == {Absent, JNull, SectionX}
TopChoice    == {Absent, JNull, SectionY}

DiagObjects ==
    { JObj(MkMap(kEtat :> e @@ kActions :> a @@ kRisques :> r @@ kSql :> s)) :
        e \in {Absent, JStr(<<"o","k">>)}, a \in NestedChoice,
        r \in NestedChoice, s \in NestedChoice }
DiagChoice == {Absent, JStr(<<"d">>)} \cup DiagObjects

\* an entry that is none of the fields: absent, under a key of its own, or
\* under a key the diagnostic object has too
ExtraChoice == {<<kAutre, Absent>>, <<kAutre, JNum(<<"1">>)>>, <<kEtat, JNum(<<"1">>)>>}

InputObjects ==
    { JObj(MkMap(kDiagnostic :> tup[1] @@ kActions :> tup[2] @@ kRisques :> tup[3]
                 @@ kSql :> tup[4] @@ kNiveau :> tup[5] @@ kNotes :> tup[6]
                 @@ tup[7][1] :> tup[7][2])) :
        tup \in DiagChoice \X TopChoice \X TopChoice \X TopChoice
                \X {Absent, JNum(<<"0",".","7">>)}
                \X {Absent, JStr(<<"n">>)}
                \X ExtraChoice }

InputValues == InputObjects \cup {JNull, JStr(<<"d">>), EmptyArray}

(***************************************************************************)
(* The restructurer as a machine: one step per call of the function        *)
(***************************************************************************)
InitRestructure ==
    /\ doc \in {FromValue(x) : x \in InputValues}
    /\ arg = doc
    /\ pc = "call"
    /\ depth = 0
    /\ pass = 1
    /\ first = None
    /\ out = None
    /\ text = <<>>
    /\ stage = "restructure"
    /\ result = NoResult
    /\ response = NoResponse
    /\ NoStream

\* a call on the Structured variant returns the hoisted document
CallStructured ==
    /\ pc = "call"
    /\ arg.variant = "Structured"
    /\ out' = RestructureStructured(arg)
    /\ pc' = "returned"
    /\ UNCHANGED <<doc, arg, depth, pass, first>>
    /\ UNCHANGED tvars
    /\ UNCHANGED svars

\* a call on Raw of a non-object returns its argument
CallRawOther ==
    /\ pc = "call"
    /\ arg.variant = "Raw"
    /\ ~IsObj(arg.value)
    /\ out' = arg
    /\ pc' = "returned"
    /\ UNCHANGED <<doc, arg, depth, pass, first>>
    /\ UNCHANGED tvars
    /\ UNCHANGED svars

\* a call on Raw of an object re-decodes the restructured map and, the decode
\* being Ok, calls the function again on what it decoded
CallRawObject ==
    /\ pc = "call"
    /\ arg.variant = "Raw"
    /\ IsObj(arg.value)
    /\ arg' = FromValue(JObj(RawRestructured(arg.value.v)))
    /\ depth' = IF depth < MaxDepth THEN depth + 1 ELSE depth
    /\ UNCHANGED <<doc, pc, pass, first, out>>
    /\ UNCHANGED tvars
    /\ UNCHANGED svars

\* the returned document is handed to the function a second time
Reapply ==
    /\ pc = "returned"
    /\ pass = 1
    /\ first' = out
    /\ arg' = out
    /\ pass' = 2
    /\ depth' = 0
    /\ pc' = "call"
    /\ UNCHANGED <<doc, out>>
    /\ UNCHANGED tvars
    /\ UNCHANGED svars

NextRestructure == CallStructured \/ CallRawOther \/ CallRawObject \/ Reapply

SpecRestructure == InitRestructure /\ [][NextRestructure]_vars


(***************************************************************************)
(* Claims about the restructurer                                           *)
(***************************************************************************)
\* Raw of an object whose restructured form does not decode as Structured
Undecodable(d) ==
    /\ d.variant = "Raw"
    /\ IsObj(d.value)
    /\ FromValue(JObj(RawRestructured(d.value.v))).variant = "Raw"

\* the value of section k nested in the diagnostic of d, or None
NestedSection(d, k) ==
    LET diag == IF d.variant = "Structured" THEN d.diagnostic
                ELSE IF IsObj(d.value) /\ kDiagnostic \in DOMAIN d.value.v
                     THEN d.value.v[kDiagnostic]
                     ELSE JNull
    IN  IF IsObj(diag) /\ k \in DOMAIN diag.v THEN diag.v[k] ELSE None

\* the value of section k at the top level of d, or None
TopSection(d, k) ==
    IF d.variant = "Structured"
    THEN (IF k = kActions THEN d.actions_recommandees
          ELSE IF k = kRisques THEN d.risques
          ELSE d.sql_suggere)
    ELSE IF IsObj(d.value) /\ k \in DOMAIN d.value.v THEN d.value.v[k] ELSE None

\* present and not null
HasValue(o) == IsSome(o) /\ ~IsNull(o)

\* C1: the recursion of clean_and_restructure_response terminates on every
\* document.  The function is deterministic in its argument, so a call whose
\* recursive call receives the very argument it was given can never return:
\* termination requires every recursive call to receive another argument.
C1_RecursionTerminates ==
    [][(pc = "call" /\ pc' = "call" /\ pass' = pass) => arg' # arg]_vars

\* C4: a call given Raw(v), v an object whose restructured form does not
\* decode as Structured, returns Raw(v) with v unchanged.
C4_UndecodableRawReturnedUnchanged ==
    [][(pc = "call" /\ Undecodable(arg)) => (pc' = "returned" /\ out' = arg)]_vars

\* C5: applying the restructurer to its own output gives an identical
\* document.
C5_Idempotent ==
    (pc = "returned" /\ pass = 2) => out = first

\* C6: the diagnostic of a returned Structured document, when an object, has
\* none of the keys actions_recommandees, risques, sql_suggere.
C6_DiagnosticHasNoSection ==
    (pc = "returned" /\ out.variant = "Structured" /\ IsObj(out.diagnostic))
        => (DOMAIN out.diagnostic.v) \cap HoistedKeys = {}

\* C7: a section present both inside diagnostic (value X) and at top level
\* (value Y) comes out at top level with value X.
C7_NestedValueWins ==
    (pc = "returned" /\ pass = 1 /\ out.variant = "Structured")
        => \A k \in HoistedKeys :
              (HasValue(NestedSection(doc, k)) /\ HasValue(TopSection(doc, k)))
                  => TopSection(out, k) = NestedSection(doc, k)

(***************************************************************************)
(* generate_advice from the response text on (advisor.rs 350-397)          *)
(***************************************************************************)
\* hand d to clean_and_restructure_response
CallRestructure(d) ==
    /\ doc' = d
    /\ arg' = d
    /\ pc' = "call"
    /\ depth' = 0
    /\ UNCHANGED <<pass, first, out>>

\* serde_json::from_str(&response): Ok goes to the restructurer (line 363),
\* Err to parse_text_response
DirectDecode ==
    /\ stage = "decode"
    /\ \E r \in {FromStr(text)} :
          IF r.ok
          THEN /\ CallRestructure(r.doc)
               /\ stage' = "final"
          ELSE /\ stage' = "parse"
               /\ UNCHANGED rvars
    /\ UNCHANGED <<text, result, response>>
    /\ UNCHANGED svars

\* parse_text_response, up to its return or its call of the restructurer
ParseTextResponse ==
    /\ stage = "parse"
    /\ \E o \in {parse_text_outcome(text)} :
           CASE o.kind = "err" ->
                   /\ result' = ErrResult
                   /\ stage' = "done"
                   /\ UNCHANGED rvars
             [] o.kind = "panic" ->
                   /\ result' = PanicResult
                   /\ stage' = "done"
                   /\ UNCHANGED rvars
             [] o.kind = "restructure" ->
                   /\ CallRestructure(o.doc)
                   /\ stage' = "inner"
                   /\ UNCHANGED result
             [] o.kind = "fallback" ->
                   /\ CallRestructure(o.doc)
                   /\ stage' = "final"
                   /\ UNCHANGED result
    /\ UNCHANGED <<text, response>>
    /\ UNCHANGED svars

\* parse_text_response returns what the restructurer returned; generate_advice
\* hands it to the restructurer again (line 363)
ParseReturn ==
    /\ stage = "inner"
    /\ pc = "returned"
    /\ CallRestructure(out)
    /\ stage' = "final"
    /\ UNCHANGED <<text, result, response>>
    /\ UNCHANGED svars

\* generate_advice returns Ok(advisor_response)
AdviceReturn ==
    /\ stage = "final"
    /\ pc = "returned"
    /\ result' = OkResult(out)
    /\ stage' = "done"
    /\ UNCHANGED rvars
    /\ UNCHANGED <<text, response>>
    /\ UNCHANGED svars

\* db_advisor answers with what generate_advice returned (handlers.rs 142-222)
DbAdvisorRespond ==
    /\ stage = "done"
    /\ result.kind \in {"ok", "err"}
    /\ response' = IF result.kind = "ok" THEN HttpAdvice(AdviceJson(result.doc))
                   ELSE HttpError(ErrorDisplay(failure))
    /\ stage' = "responded"
    /\ UNCHANGED <<text, result>>
    /\ UNCHANGED rvars
    /\ UNCHANGED svars

TextAlphabet == {"{", "}", "\"", "\\", "a"}
ShortTexts == UNION {[1..n -> TextAlphabet] : n \in 0..MaxTextLen}

ScenarioText ==
    <<"D", "i", "a", "g", "n", "o", "s", "t", "i", "c", "\n", "<bq>", "<bq>", "<bq>", "j", "s", "o", "n", "\n", "{", "\"", "d", "i", "a", "g", "n", "o", "s", "t", "i", "c", "\"", ":", "{", "\"", "e", "t", "a", "t", "\"", ":", "\"", "o", "k", "\"", ",", "\"", "r", "i", "s", "q", "u", "e", "s", "\"", ":", "[", "{", "\"", "r", "i", "s", "q", "u", "e", "\"", ":", "\"", "r", "1", "\"", "}", "]", "}", ",", "\"", "n", "i", "v", "e", "a", "u", "_", "c", "o", "n", "f", "i", "a", "n", "c", "e", "\"", ":", "0", ".", "7", "}", "\n", "<bq>", "<bq>", "<bq>">>
CompleteJson ==
    <<"{", "\"", "d", "i", "a", "g", "n", "o", "s", "t", "i", "c", "\"", ":", "{", "\"", "e", "t", "a", "t", "\"", ":", "\"", "o", "k", "\"", ",", "\"", "r", "i", "s", "q", "u", "e", "s", "\"", ":", "[", "\"", "x", "\"", "]", "}", ",", "\"", "a", "c", "t", "i", "o", "n", "s", "_", "r", "e", "c", "o", "m", "m", "a", "n", "d", "e", "e", "s", "\"", ":", "[", "]", ",", "\"", "r", "i", "s", "q", "u", "e", "s", "\"", ":", "[", "\"", "y", "\"", "]", ",", "\"", "n", "i", "v", "e", "a", "u", "_", "c", "o", "n", "f", "i", "a", "n", "c", "e", "\"", ":", "0", ".", "7", "}">>
WrappedText == <<"V", "o", "i", "c", "i", ":", "\n", "<bq>", "<bq>", "<bq>", "j", "s", "o", "n", "\n">> \o CompleteJson \o <<"\n", "<bq>", "<bq>", "<bq>", "\n", "f", "i", "n">>
\* texts with a brace inside a string, an escaped quote, a brace after an
\* escape outside any string, an array cut short, and an object cut short
\* after a complete one
BraceInString == <<"n", "o", "i", "s", "e", " ", "{", "\"", "a", "\"", ":", "\"", "v", "a", "l", "{", "u", "e", "}", "\"", ",", " ", "\"", "b", "\"", ":", "1", "}", " ", "t", "r", "a", "i", "l", "i", "n", "g">>
EscapedQuote  == <<"{", "\"", "x", "\"", ":", "\"", "a", "\\", "\"", "b", "}", "c", "\"", "}">>
EscapedBrace  == <<"{", "\\", "}", "}", "}">>
CutArray      == <<"{", "\"", "a", "\"", ":", "1", ",", "\"", "b", "\"", ":", "[", "1", ",", "2">>
CutAfterFirst == <<"{", "\"", "a", "\"", ":", "1", "}", " ", "n", "o", "i", "s", "e", " ", "{", "\"", "b", "\"", ":", "2">>
CutInString   == <<"x", " ", "{", "\"", "a", "\"", ":", "{", "\"", "b", "\"", ":", "\"", "}", " ", "y">>
\* texts whose braces hold no JSON: one longer than the prefix the basic
\* response keeps, one inside a fence
LongBroken ==
    [i \in 1..(FallbackPrefixLen + 20) |->
        IF i = 1 THEN "{" ELSE IF i = FallbackPrefixLen + 20 THEN "}" ELSE "a"]
FencedBroken == <<"<bq>", "<bq>", "<bq>", "j", "s", "o", "n", "\n", "{", "a", "}", "\n", "<bq>", "<bq>", "<bq>">>
\* an object with a fence inside a string value, after a word of prose
FenceInString == <<"o", "k", " ", "{", "\"", "n", "o", "t", "e", "s", "\"", ":", "\"", "<bq>", "<bq>", "<bq>", "\"", "}">>
\* an object inside a fence whose tag is written Json, and one written JSON
MixedCaseFence == <<"<bq>", "<bq>", "<bq>", "J", "s", "o", "n", "\n", "{", "\"", "a", "\"", ":", "1", "}", "\n", "<bq>", "<bq>", "<bq>">>
UpperCaseFence == <<"<bq>", "<bq>", "<bq>", "J", "S", "O", "N", "\n", "{", "\"", "a", "\"", ":", "1", "}", "\n", "<bq>", "<bq>", "<bq>">>
\* bare headings around lines that open with a heading word and hold a brace
HeadingsAndBraces == <<"D", "i", "a", "g", "n", "o", "s", "t", "i", "c", "\n", "D", "i", "a", "g", "n", "o", "s", "t", "i", "c", ":", " ", "{", "\"", "a", "\"", ":", "1", "}", "\n", " ", " ", "A", "c", "t", "i", "o", "n", "s", " ", "{", "\"", "b", "\"", ":", "2", "}", "\n", "R", "i", "s", "q", "u", "e", "s">>
\* a complete document with sql_suggere and notes_complementaires, and one
\* whose niveau_confiance is beyond the f32
WithSqlAndNotes == <<"{", "\"", "d", "i", "a", "g", "n", "o", "s", "t", "i", "c", "\"", ":", "\"", "d", "\"", ",", "\"", "a", "c", "t", "i", "o", "n", "s", "_", "r", "e", "c", "o", "m", "m", "a", "n", "d", "e", "e", "s", "\"", ":", "[", "]", ",", "\"", "r", "i", "s", "q", "u", "e", "s", "\"", ":", "[", "]", ",", "\"", "s", "q", "l", "_", "s", "u", "g", "g", "e", "r", "e", "\"", ":", "\"", "q", "\"", ",", "\"", "n", "i", "v", "e", "a", "u", "_", "c", "o", "n", "f", "i", "a", "n", "c", "e", "\"", ":", "0", ".", "5", ",", "\"", "n", "o", "t", "e", "s", "_", "c", "o", "m", "p", "l", "e", "m", "e", "n", "t", "a", "i", "r", "e", "s", "\"", ":", "\"", "n", "\"", "}">>
HugeConfidence  == <<"{", "\"", "d", "i", "a", "g", "n", "o", "s", "t", "i", "c", "\"", ":", "\"", "d", "\"", ",", "\"", "a", "c", "t", "i", "o", "n", "s", "_", "r", "e", "c", "o", "m", "m", "a", "n", "d", "e", "e", "s", "\"", ":", "[", "]", ",", "\"", "r", "i", "s", "q", "u", "e", "s", "\"", ":", "[", "]", ",", "\"", "n", "i", "v", "e", "a", "u", "_", "c", "o", "n", "f", "i", "a", "n", "c", "e", "\"", ":", "1", "e", "3", "9", "}">>
\* prose lines that open with a heading word, without any brace
ProseHeadings == <<"D", "i", "a", "g", "n", "o", "s", "t", "i", "c", ":", " ", "o", "k", "\n", "A", "c", "t", "i", "o", "n", "s", " ", "a", " ", "f", "a", "i", "r", "e", "\n", "f", "i", "n">>
\* a complete document whose diagnostic nests a null section, alone and after
\* a word of prose
NestedNullJson ==
    <<"{", "\"", "d", "i", "a", "g", "n", "o", "s", "t", "i", "c", "\"", ":", "{", "\"", "a", "\"", ":", "1", ",", "\"", "r", "i", "s", "q", "u", "e", "s", "\"", ":", "n", "u", "l", "l", "}", ",", "\"", "a", "c", "t", "i", "o", "n", "s", "_", "r", "e", "c", "o", "m", "m", "a", "n", "d", "e", "e", "s", "\"", ":", "[", "]", ",", "\"", "r", "i", "s", "q", "u", "e", "s", "\"", ":", "[", "]", ",", "\"", "n", "i", "v", "e", "a", "u", "_", "c", "o", "n", "f", "i", "a", "n", "c", "e", "\"", ":", "1", "}">>
WrappedNestedNull == <<"o", "k", " ">> \o NestedNullJson
NamedTexts ==
    {NestedNullJson, WrappedNestedNull, ProseHeadings, ScenarioText, CompleteJson, WrappedText, BraceInString, EscapedQuote,
     EscapedBrace, CutArray, CutAfterFirst, CutInString, LongBroken, FencedBroken,
     FenceInString, MixedCaseFence, UpperCaseFence, HeadingsAndBraces,
     WithSqlAndNotes, HugeConfidence}

InitText ==
    /\ text \in ShortTexts \cup NamedTexts
    /\ stage = "decode"
    /\ result = NoResult
    /\ response = NoResponse
    /\ NoStream
    /\ doc = None
    /\ arg = None
    /\ pc = "idle"
    /\ depth = 0
    /\ pass = 1
    /\ first = None
    /\ out = None

NextText ==
    \/ DirectDecode
    \/ ParseTextResponse
    \/ ParseReturn
    \/ AdviceReturn
    \/ DbAdvisorRespond
    \/ CallStructured
    \/ CallRawOther
    \/ CallRawObject

SpecText == InitText /\ [][NextText]_vars

\* C2: the parsing pipeline never panics, whatever the response text.
C2_NeverPanics == result.kind # "panic"

\* C3: a non-empty text in which no JSON span is found (no "{" or no "}" in
\* it) does not make the pipeline return an error: the basic Structured
\* response is returned instead.
C3_NoJsonFoundIsNotAnError ==
    (stage = "done" /\ text # <<>> /\ (~Contains(text, "{") \/ ~Contains(text, "}")))
        => (result.kind = "ok" /\ result.doc.variant = "Structured")

(***************************************************************************)
(* MistralClient::generate_stream and generate (client.rs)                 *)
(***************************************************************************)
\* The bytes of a chunk are the ASCII characters themselves and the two bytes
\* "<c3>", "<a9>" of U+00E9.  String::from_utf8_lossy: a lead byte with its
\* continuation byte is the character, a byte of a broken sequence is U+FFFD.
LossyMarks(b) ==
    [i \in 1..Len(b) |->
        IF b[i] = "<a9>" THEN (IF i > 1 /\ b[i - 1] = "<c3>" THEN "<skip>" ELSE "<fffd>")
        ELSE IF b[i] = "<c3>" THEN (IF i < Len(b) /\ b[i + 1] = "<a9>" THEN "<e9>" ELSE "<fffd>")
        ELSE b[i]]
from_utf8_lossy(b) == SelectSeq(LossyMarks(b), LAMBDA c : c # "<skip>")

kChoices == <<"c", "h", "o", "i", "c", "e", "s">>
kDelta   == <<"d", "e", "l", "t", "a">>
kMessage == <<"m", "e", "s", "s", "a", "g", "e">>
kContent == <<"c", "o", "n", "t", "e", "n", "t">>
kRole    == <<"r", "o", "l", "e">>
kFinish  == <<"f", "i", "n", "i", "s", "h", "_", "r", "e", "a", "s", "o", "n">>
kId      == <<"i", "d">>
kObject  == <<"o", "b", "j", "e", "c", "t">>

\* an Option<String> field with serde(default): absent, null or a string
OptStringOk(m, k) == k \notin DOMAIN m \/ IsNull(m[k]) \/ m[k].t = "str"

\* MistralMessageResponse: content is a String with serde(default)
MessageOk(x) ==
    /\ IsObj(x)
    /\ kContent \in DOMAIN x.v => x.v[kContent].t = "str"
    /\ OptStringOk(x.v, kRole)

OptMessageOk(m, k) == k \notin DOMAIN m \/ IsNull(m[k]) \/ MessageOk(m[k])

\* MistralChoice
ChoiceOk(x) ==
    /\ IsObj(x)
    /\ OptMessageOk(x.v, kMessage)
    /\ OptMessageOk(x.v, kDelta)
    /\ OptStringOk(x.v, kFinish)

\* serde_json::from_str::<MistralStreamEvent> succeeds on the parse r
EventOk(r) ==
    /\ r.ok
    /\ r.dup = {}
    /\ IsObj(r.v)
    /\ kChoices \in DOMAIN r.v.v
    /\ r.v.v[kChoices].t = "arr"
    /\ \A i \in 1..Len(r.v.v[kChoices].v) : ChoiceOk(r.v.v[kChoices].v[i])
    /\ OptStringOk(r.v.v, kId)
    /\ OptStringOk(r.v.v, kObject)

MessageContent(x) == IF kContent \in DOMAIN x.v THEN x.v[kContent].v ELSE <<>>

\* a variant of ChoiceContent that takes the message when the delta is empty
ChoiceContentOrMessage(c) ==
    IF /\ kDelta \in DOMAIN c.v
       /\ ~IsNull(c.v[kDelta])
       /\ MessageContent(c.v[kDelta]) # <<>>
    THEN MessageContent(c.v[kDelta])
    ELSE IF kMessage \in DOMAIN c.v /\ ~IsNull(c.v[kMessage]) THEN MessageContent(c.v[kMessage])
    ELSE <<>>

\* what a choice adds to full_content: the delta when there is one, else the
\* message (client.rs 338-351)
ChoiceContent(c) ==
    IF kDelta \in DOMAIN c.v /\ ~IsNull(c.v[kDelta]) THEN MessageContent(c.v[kDelta])
    ELSE IF kMessage \in DOMAIN c.v /\ ~IsNull(c.v[kMessage]) THEN MessageContent(c.v[kMessage])
    ELSE <<>>

RECURSIVE ChoicesContent(_)
ChoicesContent(cs) ==
    IF cs = <<>> THEN <<>> ELSE ChoiceContent(Head(cs)) \o ChoicesContent(Tail(cs))

\* the text an event adds; an event that does not decode is ignored
EventContent(r) == IF EventOk(r) THEN ChoicesContent(r.v.v[kChoices].v) ELSE <<>>

DataPrefix == <<"d", "a", "t", "a", ":", " ">>
DoneMark   == <<"[", "D", "O", "N", "E", "]">>

\* a variant of ProcessData where an event that does not decode loses the text
\* accumulated so far
ProcessDataResetsOnError(full, data) ==
    IF data = DoneMark \/ data = <<>> THEN full
    ELSE IF EventOk(FromStrValue(data)) THEN full \o EventContent(FromStrValue(data))
    ELSE <<>>

\* the data of a line "data: ..." (client.rs 326-357)
ProcessData(full, data) ==
    IF data = DoneMark \/ data = <<>> THEN full
    ELSE full \o EventContent(FromStrValue(data))

\* one trimmed line (client.rs 320-358)
ProcessTrimmed(full, line) ==
    IF line = <<>> THEN full
    ELSE IF StartsWithAt(line, 1, DataPrefix)
    THEN ProcessData(full, Trim(SubSeq(line, Len(DataPrefix) + 1, Len(line))))
    ELSE full

ProcessLine(full, line) == ProcessTrimmed(full, Trim(line))

\* a variant of ProcessLines that stops at the first sentinel line
RECURSIVE ProcessLinesStopAtDone(_, _)
ProcessLinesStopAtDone(full, ls) ==
    IF ls = <<>> THEN full
    ELSE IF Trim(Head(ls)) = DataPrefix \o DoneMark THEN full
    ELSE ProcessLinesStopAtDone(ProcessLine(full, Head(ls)), Tail(ls))

RECURSIVE ProcessLines(_, _)
ProcessLines(full, ls) ==
    IF ls = <<>> THEN full ELSE ProcessLines(ProcessLine(full, Head(ls)), Tail(ls))

EndsWithBreak(b) == b # <<>> /\ b[Len(b)] \in {"\n", "\r"}

\* one turn of the reading loop once the chunk is appended to the buffer and
\* the buffer cut into lines (client.rs 303-364)
ChunkLines(full, buf, ls) ==
    IF ~EndsWithBreak(buf) /\ ls # <<>>
    THEN [buffer |-> ls[Len(ls)], full |-> ProcessLines(full, SubSeq(ls, 1, Len(ls) - 1))]
    ELSE [buffer |-> <<>>, full |-> ProcessLines(full, ls)]

ChunkStep(full, buf) == ChunkLines(full, buf, Lines(buf))

\* the buffer left when the stream ends (client.rs 368-388)
FinalFlush(full, buf) == ProcessLine(full, buf)

Prompts == {"p1", "p2"}

StreamCall(p)   == [kind |-> "stream", prompt |-> p]
GenerateCall(p) == [kind |-> "generate", prompt |-> p]

\* the request is sent (client.rs 264-288): a transport error or a status that
\* is not a success returns an error, else the reading starts
StreamSend ==
    /\ phase = "send"
    /\ calls' = Append(calls, StreamCall(prompt))
    /\ \E f \in {NoFailure, Failure("status", "status")}
                   \cup {Failure("send", c) : c \in SendCauses} :
          IF f = NoFailure
          THEN /\ phase' = "reading"
               /\ UNCHANGED <<stream_end, sresult, failure>>
          ELSE /\ phase' = "returned"
               /\ stream_end' = "refused"
               /\ sresult' = SErr
               /\ failure' = f
    /\ UNCHANGED <<prompt, payload, pending, buffer, full_content, reply>>
    /\ UNCHANGED rvars
    /\ UNCHANGED tvars

\* stream.next() gives a chunk (client.rs 295-365)
StreamChunk ==
    /\ phase = "reading"
    /\ pending # <<>>
    /\ \E st \in {ChunkStep(full_content, buffer \o from_utf8_lossy(Head(pending)))} :
          /\ buffer' = st.buffer
          /\ full_content' = st.full
    /\ pending' = Tail(pending)
    /\ UNCHANGED <<phase, prompt, payload, stream_end, calls, reply, sresult, failure>>
    /\ UNCHANGED rvars
    /\ UNCHANGED tvars

\* a variant of StreamError that returns the text accumulated before the error
StreamErrorReturnsPartial ==
    /\ phase = "reading"
    /\ phase' = "returned"
    /\ stream_end' = "error"
    /\ sresult' = IF full_content = <<>> THEN SErr ELSE SOk(full_content)
    /\ \E c \in ReadCauses : failure' = Failure("read", c)
    /\ UNCHANGED <<prompt, payload, pending, buffer, full_content, calls, reply>>
    /\ UNCHANGED rvars
    /\ UNCHANGED tvars

\* stream.next() gives an error (client.rs 297)
StreamError ==
    /\ phase = "reading"
    /\ phase' = "returned"
    /\ stream_end' = "error"
    /\ sresult' = SErr
    /\ \E c \in ReadCauses : failure' = Failure("read", c)
    /\ UNCHANGED <<prompt, payload, pending, buffer, full_content, calls, reply>>
    /\ UNCHANGED rvars
    /\ UNCHANGED tvars

\* a variant of StreamEnd that leaves out the test of client.rs 397
StreamEndAlwaysFallsBack ==
    /\ phase = "reading"
    /\ pending = <<>>
    /\ stream_end' = "end"
    /\ buffer' = buffer
    /\ full_content' = FinalFlush(full_content, buffer)
    /\ calls' = Append(calls, GenerateCall(prompt))
    /\ phase' = "generate"
    /\ UNCHANGED sresult
    /\ UNCHANGED <<prompt, payload, pending, reply, failure>>
    /\ UNCHANGED rvars
    /\ UNCHANGED tvars

\* stream.next() gives None (client.rs 368-406): the buffer is flushed, then
\* an empty text calls generate with the prompt kept aside, any other text is
\* returned
StreamEnd ==
    /\ phase = "reading"
    /\ pending = <<>>
    /\ stream_end' = "end"
    /\ buffer' = buffer
    /\ \E fc \in {FinalFlush(full_content, buffer)} :
          /\ full_content' = fc
          /\ IF fc = <<>>
             THEN /\ calls' = Append(calls, GenerateCall(prompt))
                  /\ phase' = "generate"
                  /\ UNCHANGED sresult
             ELSE /\ phase' = "returned"
                  /\ sresult' = SOk(fc)
                  /\ UNCHANGED calls
    /\ UNCHANGED <<prompt, payload, pending, reply, failure>>
    /\ UNCHANGED rvars
    /\ UNCHANGED tvars

ReplyTexts == {<<>>, <<"a">>, <<"1">>, <<"{", "}">>, CompleteJson, WrappedText}
GenerateReplies == {SErr} \cup {SOk(t) : t \in ReplyTexts}

\* generate returns (client.rs 144-217, 403): an error, or the content of the
\* first choice, which can be empty
GenerateReturn ==
    /\ phase = "generate"
    /\ \E r \in GenerateReplies :
          /\ reply' = r
          /\ sresult' = r
          /\ IF r = SErr
             THEN \E c \in SendCauses : failure' = Failure("send", c)
             ELSE UNCHANGED failure
    /\ phase' = "returned"
    /\ UNCHANGED <<prompt, payload, pending, buffer, full_content, stream_end, calls>>
    /\ UNCHANGED rvars
    /\ UNCHANGED tvars

\* generate_advice gets the result of generate_stream (advisor.rs 347): an
\* error is returned to the caller, a text goes to the decoding
AwaitStream ==
    /\ stage = "stream"
    /\ phase = "returned"
    /\ IF sresult.kind = "ok"
       THEN /\ text' = sresult.v
            /\ stage' = "decode"
            /\ UNCHANGED result
       ELSE /\ result' = ErrResult
            /\ stage' = "done"
            /\ UNCHANGED text
    /\ phase' = "idle"
    /\ UNCHANGED response
    /\ UNCHANGED <<prompt, payload, pending, buffer, full_content, stream_end,
                   calls, reply, sresult, failure>>
    /\ UNCHANGED rvars

EventDeltaE   == <<"d", "a", "t", "a", ":", " ", "{", "\"", "c", "h", "o", "i", "c", "e", "s", "\"", ":", "[", "{", "\"", "d", "e", "l", "t", "a", "\"", ":", "{", "\"", "c", "o", "n", "t", "e", "n", "t", "\"", ":", "\"">> \o <<"<c3>", "<a9>">> \o <<"\"", "}", "}", "]", "}">>
EventDeltaA   == <<"d", "a", "t", "a", ":", " ", "{", "\"", "c", "h", "o", "i", "c", "e", "s", "\"", ":", "[", "{", "\"", "d", "e", "l", "t", "a", "\"", ":", "{", "\"", "c", "o", "n", "t", "e", "n", "t", "\"", ":", "\"", "a", "\"", "}", "}", "]", "}">>
EventMessageB == <<"d", "a", "t", "a", ":", " ", "{", "\"", "c", "h", "o", "i", "c", "e", "s", "\"", ":", "[", "{", "\"", "m", "e", "s", "s", "a", "g", "e", "\"", ":", "{", "\"", "c", "o", "n", "t", "e", "n", "t", "\"", ":", "\"", "b", "\"", "}", "}", "]", "}">>
DoneLine      == DataPrefix \o DoneMark

\* a data line whose payload is not a JSON text
MalformedLine == <<"d", "a", "t", "a", ":", " ", "{">>
\* two events with a malformed data line between them
MalformedBetween ==
    EventDeltaA \o <<"\n">> \o MalformedLine \o <<"\n">> \o EventMessageB \o <<"\n">>

\* a sentinel line followed by an event
DoneThenEvent == DoneLine \o <<"\n">> \o EventDeltaA \o <<"\n">>

\* an event whose text has a carriage return between two tokens
EventCrInside ==
    <<"d", "a", "t", "a", ":", " ", "{", "\"", "c", "h", "o", "i", "c", "e", "s", "\"", ":", "[", "{", "\"", "d", "e", "l", "t", "a", "\"", ":", "{", "\"", "c", "o", "n", "t", "e", "n", "t", "\"", ":", "\"", "a", "\"", "}", "}", "]">> \o <<"\r">> \o <<"}">> \o <<"\n">>

\* a choice with an empty delta and a message; the line has no line break
EventEmptyDelta == <<"d", "a", "t", "a", ":", " ", "{", "\"", "c", "h", "o", "i", "c", "e", "s", "\"", ":", "[", "{", "\"", "d", "e", "l", "t", "a", "\"", ":", "{", "}", ",", "\"", "m", "e", "s", "s", "a", "g", "e", "\"", ":", "{", "\"", "c", "o", "n", "t", "e", "n", "t", "\"", ":", "\"", "b", "\"", "}", "}", "]", "}">>

\* a choice with a delta and a message, then a choice with a message
EventBothThenMessage ==
    <<"d", "a", "t", "a", ":", " ", "{", "\"", "c", "h", "o", "i", "c", "e", "s", "\"", ":", "[", "{", "\"", "d", "e", "l", "t", "a", "\"", ":", "{", "\"", "c", "o", "n", "t", "e", "n", "t", "\"", ":", "\"", "a", "\"", "}", ",", "\"", "m", "e", "s", "s", "a", "g", "e", "\"", ":", "{", "\"", "c", "o", "n", "t", "e", "n", "t", "\"", ":", "\"", "c", "\"", "}", "}", ",", "{", "\"", "m", "e", "s", "s", "a", "g", "e", "\"", ":", "{", "\"", "c", "o", "n", "t", "e", "n", "t", "\"", ":", "\"", "b", "\"", "}", "}", "]", "}">> \o <<"\n">>

Payloads ==
    { <<>>,
      DoneThenEvent,
      EventCrInside,
      EventEmptyDelta,
      EventBothThenMessage,
      DoneLine \o <<"\n">>,
      EventDeltaE \o <<"\r", "\n">>,
      EventMessageB,
      MalformedLine \o <<"\n">> \o EventDeltaA \o <<"\n", "\n">>,
      MalformedBetween }

\* the ways of cutting p into at most n chunks
RECURSIVE Splits(_, _)
Splits(p, n) ==
    IF n <= 1 \/ Len(p) <= 1 THEN {<<p>>}
    ELSE Splits(p, n - 1) \cup
         UNION {{<<SubSeq(p, 1, k)>> \o r : r \in Splits(SubSeq(p, k + 1, Len(p)), n - 1)} :
                    k \in 1..(Len(p) - 1)}

InitAdvice ==
    /\ stage = "stream"
    /\ text = <<>>
    /\ result = NoResult
    /\ response = NoResponse
    /\ doc = None
    /\ arg = None
    /\ pc = "idle"
    /\ depth = 0
    /\ pass = 1
    /\ first = None
    /\ out = None
    /\ phase = "send"
    /\ prompt \in Prompts
    /\ payload \in Payloads
    /\ pending \in Splits(payload, MaxChunks)
    /\ buffer = <<>>
    /\ full_content = <<>>
    /\ stream_end = "none"
    /\ calls = <<>>
    /\ reply = NoReply
    /\ sresult = NoReply
    /\ failure = NoFailure

NextAdvice ==
    \/ StreamSend
    \/ StreamChunk
    \/ StreamError
    \/ StreamEnd
    \/ GenerateReturn
    \/ AwaitStream
    \/ DirectDecode
    \/ ParseTextResponse
    \/ ParseReturn
    \/ AdviceReturn
    \/ DbAdvisorRespond
    \/ CallStructured
    \/ CallRawOther
    \/ CallRawObject

SpecAdvice == InitAdvice /\ [][NextAdvice]_vars

\* the text accumulated when the whole payload comes as one chunk
OneChunkStep(p) == ChunkStep(<<>>, from_utf8_lossy(p))
OneChunkContent(p) == FinalFlush(OneChunkStep(p).full, OneChunkStep(p).buffer)

\* C8: whatever the cutting of the payload into chunks, the text accumulated
\* when the stream ends is the text accumulated when the payload comes as one
\* chunk.
C8_ChunkBoundaryInvariance ==
    stream_end = "end" => full_content = OneChunkContent(payload)

GenerateCalls == {i \in 1..Len(calls) : calls[i].kind = "generate"}

\* C9: generate is called if and only if the stream was read to its end
\* without error and the accumulated text is empty; it is then called once,
\* with the prompt of generate_stream, and what it returns is what
\* generate_stream returns.
C9_FallbackIffEmptyStream ==
    /\ GenerateCalls # {} <=> (stream_end = "end" /\ full_content = <<>>)
    /\ Cardinality(GenerateCalls) <= 1
    /\ \A i \in GenerateCalls : calls[i].prompt = prompt
    /\ (GenerateCalls # {} /\ sresult # NoReply) => (reply # NoReply /\ sresult = reply)
    /\ GenerateCalls = {} => reply = NoReply

C9_FallbackResultReturned ==
    /\ stream_end = "end"
    /\ full_content = <<>>
    /\ Cardinality(GenerateCalls) = 1
    /\ sresult.kind = "ok"
    /\ sresult.v # <<>>
    /\ sresult = reply

\* C10: when the stream ends with an empty text and generate returns an empty
\* content too, the request returns an error after exactly two upstream
\* calls, one streaming and one not: no other call is made and no document
\* is built or returned.
C10_EmptyTwiceIsAnError ==
    (stream_end = "end" /\ full_content = <<>> /\ reply = SOk(<<>>))
        => /\ calls = <<StreamCall(prompt), GenerateCall(prompt)>>
           /\ pc = "idle"
           /\ result.kind \in {"none", "err"}
           /\ stage \in {"stream", "decode", "parse", "done", "responded"}
           /\ stage \in {"done", "responded"} => result = ErrResult
           /\ stage = "responded" => response.status = 500

C10_ErrorAfterTwoCalls ==
    /\ stream_end = "end"
    /\ full_content = <<>>
    /\ reply = SOk(<<>>)
    /\ stage = "done"
    /\ result = ErrResult
    /\ Len(calls) = 2

TransportFailed == stream_end \in {"refused", "error"}

\* C11: when the request is refused or the reading of a chunk fails,
\* generate_stream returns an error: the text accumulated so far is not
\* returned, no chunk is processed afterwards (the chunks left, the buffer
\* and the accumulated text stay as they were), generate is not called, and
\* generate_advice hands no text to the decoding.
C11_TransportFailureAborts ==
    [][TransportFailed' =>
          /\ sresult' = SErr
          /\ phase' \in {"returned", "idle"}
          /\ reply' = NoReply
          /\ \A i \in 1..Len(calls') : calls'[i].kind = "stream"
          /\ text' = <<>>
          /\ result' \in {NoResult, ErrResult}
          /\ stage' \in {"stream", "done", "responded"}
          /\ response'.status \in {0, 500}
          /\ TransportFailed => UNCHANGED <<pending, buffer, full_content, calls, sresult>>]_vars

C11_ErrorAfterPartialText ==
    /\ stream_end = "error"
    /\ full_content # <<>>
    /\ pending # <<>>
    /\ stage = "done"
    /\ result = ErrResult

\* C12: a data line whose payload does not decode is ignored: it is no error,
\* it leaves the accumulated text as it was, and the lines after it, in the
\* same chunk or in a later one, are still processed.
C12_MalformedEventSwallowed ==
    /\ sresult = SErr => (TransportFailed \/ reply = SErr)
    /\ (payload = MalformedBetween /\ phase = "reading")
          => full_content \in {<<>>, <<"a">>, <<"a", "b">>}
    /\ (payload = MalformedBetween /\ stream_end = "end")
          => (full_content = <<"a", "b">> /\ sresult = SOk(<<"a", "b">>))

C12_TextAroundMalformedLineReturned ==
    /\ payload = MalformedBetween
    /\ stream_end = "end"
    /\ full_content = <<"a", "b">>
    /\ stage = "decode"
    /\ text = <<"a", "b">>

(***************************************************************************)
(* The reference scanner, stated position by position over the cleaned     *)
(* text s whose first "{" is at index b: a character is consumed literally *)
(* when an odd run of backslashes precedes it; a quote that is not         *)
(* consumed literally toggles the string state; a brace counts when it is  *)
(* neither consumed literally nor inside a string.                         *)
(***************************************************************************)
FirstBrace(s) == FirstIn(s, 1, {"{"})
RunStart(s, b, i) == CHOOSE j \in b..(i - 1) :
                        /\ s[j] # "\\"
                        /\ \A k \in (j + 1)..(i - 1) : s[k] = "\\"
RefEscaped(s, b, i) == i > b /\ (i - 1 - RunStart(s, b, i)) % 2 = 1
RefInString(s, b, i) ==
    Cardinality({k \in b..(i - 1) : s[k] = "\"" /\ ~RefEscaped(s, b, k)}) % 2 = 1
RefCounts(s, b, i, c) == s[i] = c /\ ~RefEscaped(s, b, i) /\ ~RefInString(s, b, i)
RefDepth(s, b, i) ==
    Cardinality({k \in b..i : RefCounts(s, b, k, "{")})
        - Cardinality({k \in b..i : RefCounts(s, b, k, "}")})
RefEnds(s, b) == {e \in b..Len(s) : RefCounts(s, b, e, "}") /\ RefDepth(s, b, e) = 0}
RefBalanced(s) == FirstBrace(s) <= Len(s) /\ RefEnds(s, FirstBrace(s)) # {}
RefFirstEnd(s, b) == CHOOSE e \in RefEnds(s, b) : \A f \in RefEnds(s, b) : e <= f
RefSpan(s) == SubSeq(s, FirstBrace(s), RefFirstEnd(s, FirstBrace(s)))

\* C13: when the reference scanner finds, in the cleaned text, a "}" that
\* brings the depth back to 0, extract_json_from_text returns the span from
\* the first "{" of the cleaned text to the first such "}", and nothing else.
C13_BalancedSpanIsReference ==
    RefBalanced(clean_text(text))
        => extract_json_from_text(text) = [kind |-> "some", v |-> RefSpan(clean_text(text))]

C13_BraceInStringSpanExtracted ==
    /\ text = BraceInString
    /\ stage = "inner"
    /\ RefBalanced(clean_text(text))
    /\ extract_json_from_text(text) = [kind |-> "some", v |-> <<"{", "\"", "a", "\"", ":", "\"", "v", "a", "l", "{", "u", "e", "}", "\"", ",", " ", "\"", "b", "\"", ":", "1", "}">>]
    /\ extract_json_from_text(EscapedQuote) = [kind |-> "some", v |-> EscapedQuote]

\* the index of the last "}" of s, 0 when there is none
LastClose(s) == IF \E k \in 1..Len(s) : s[k] = "}"
                THEN CHOOSE k \in 1..Len(s) : s[k] = "}" /\ \A m \in (k + 1)..Len(s) : s[m] # "}"
                ELSE 0

\* C14: when the scan of the cleaned text ends without the depth coming back
\* to 0, extract_json_from_text returns the span from the first "{" to the
\* last "}" when a "}" stands after the first "{", and nothing when there is
\* no "{" or no "}" after the first "{".
C14_UnbalancedFallsBackToLastBrace ==
    ~RefBalanced(clean_text(text))
        => extract_json_from_text(text) =
              IF FirstBrace(clean_text(text)) <= Len(clean_text(text))
                    /\ LastClose(clean_text(text)) > FirstBrace(clean_text(text))
              THEN [kind |-> "some",
                    v |-> SubSeq(clean_text(text), FirstBrace(clean_text(text)),
                                 LastClose(clean_text(text)))]
              ELSE NoText

C14_CutObjectSpanToLastBrace ==
    /\ text = CutInString
    /\ stage = "done"
    /\ ~RefBalanced(clean_text(text))
    /\ extract_json_from_text(text) = [kind |-> "some", v |-> <<"{", "\"", "a", "\"", ":", "{", "\"", "b", "\"", ":", "\"", "}">>]
    /\ extract_json_from_text(CutArray) = NoText

\* the document of the scenario: the section risques hoisted out of
\* diagnostic, empty actions, the confidence of the response
ScenarioDoc ==
    Structured(JObj(kEtat :> JStr(<<"o", "k">>)),
               EmptyArray,
               JArr(<<JObj(kRisque :> JStr(<<"r", "1">>))>>),
               None, JNum(<<"0", ".", "7">>), None)

\* C15: for the text made of a heading line, a json fence, the object
\* {"diagnostic":{"etat":"ok","risques":[{"risque":"r1"}]},"niveau_confiance":0.7}
\* and a closing fence, the pipeline returns ScenarioDoc: the restructurer it
\* calls returns (no recursive call receives the argument of its caller) and
\* what generate_advice returns is Ok(ScenarioDoc).
C15_ScenarioReturnsStructured ==
    [][text = ScenarioText =>
          /\ (pc = "call" /\ pc' = "call") => arg' # arg
          /\ stage' = "done" => result' = OkResult(ScenarioDoc)]_vars

\* the characters 1..n of t, all of t when it has fewer
FirstChars(t, n) == [i \in 1..(IF Len(t) < n THEN Len(t) ELSE n) |-> t[i]]

BasicResponse(t) ==
    [variant |-> "Structured",
     diagnostic |-> [t |-> "str", v |-> <<"E", "r", "r", "e", "u", "r", " ", "d", "e", " ", "p", "a", "r", "s", "i", "n", "g", " ", "J", "S", "O", "N", ".", " ", "T", "e", "x", "t", "e", " ", "r", "e", "<e7>", "u", ":", " ">> \o FirstChars(t, 500)],
     actions_recommandees |-> [t |-> "arr", v |-> <<>>],
     risques |-> [t |-> "arr", v |-> <<>>],
     sql_suggere |-> None,
     niveau_confiance |-> [t |-> "num", v |-> <<"0", ".", "0">>],
     notes_complementaires |-> None]

\* C16: when parse_text_response falls back to the basic response, the
\* document it returns is Structured with diagnostic the string made of the
\* fixed prefix and the first 500 characters at most of the text as received
\* (not cleaned), empty arrays for actions_recommandees and risques, no
\* sql_suggere, no notes_complementaires and niveau_confiance 0.0; the
\* restructuring of generate_advice returns it unchanged.
C16_BasicResponseOnFallback ==
    (stage \in {"final", "done"} /\ ~FromStr(text).ok
        /\ parse_text_outcome(text).kind = "fallback")
        => /\ doc = BasicResponse(text)
           /\ pc = "returned" => out = BasicResponse(text)
           /\ stage = "done" => result = OkResult(BasicResponse(text))

C16_LongTextCutAtPrefix ==
    /\ text = LongBroken
    /\ stage = "done"
    /\ result.kind = "ok"
    /\ result.doc.variant = "Structured"
    /\ Len(result.doc.diagnostic.v) = 36 + 500
    /\ result.doc.diagnostic.v[36 + 500] = "a"
    /\ BasicResponse(FencedBroken).diagnostic.v[37] = "<bq>"

\* s with every "\r\n" turned into "\n", as lines() and join do
KeptIndices(s) == {i \in 1..Len(s) : ~(s[i] = "\r" /\ i < Len(s) /\ s[i + 1] = "\n")}
NormalizeBreaks(s) ==
    [k \in 1..Cardinality(KeptIndices(s)) |->
        s[CHOOSE i \in KeptIndices(s) : Cardinality({m \in KeptIndices(s) : m <= i}) = k]]

IsSubstring(j, s) ==
    \E k \in 0..(Len(s) - Len(j)) : SubSeq(s, k + 1, k + Len(j)) = j

\* the spans of t that are JSON objects
JsonObjectSpans(t) ==
    {SubSeq(t, a, b) : <<a, b>> \in
        {p \in (1..Len(t)) \X (1..Len(t)) :
            /\ p[1] < p[2]
            /\ t[p[1]] = "{"
            /\ t[p[2]] = "}"
            /\ FromStrValue(SubSeq(t, p[1], p[2])).ok}}

\* C17: once parse_text_response has cleaned the text, every JSON object
\* that is a span of the text is still a span of the cleaned text, character
\* for character apart from the line terminators.
C17_CleanTextKeepsJson ==
    (stage \in {"inner", "final", "done"} /\ ~FromStr(text).ok)
        => \A j \in JsonObjectSpans(text) :
              IsSubstring(NormalizeBreaks(j), clean_text(text))

FenceTags == {<<"j", "s", "o", "n">>, <<"J", "S", "O", "N">>, <<"J", "s", "o", "n">>}

\* C18: once parse_text_response has cleaned the text, no fence remains in
\* the cleaned text, and a text that opens with a fence line, its tag written
\* in any letter case, is cleaned to what the text after that line is cleaned
\* to: neither the backquotes nor the tag remain.
C18_FenceRemovedWithTag ==
    (stage \in {"inner", "final", "done"} /\ ~FromStr(text).ok)
        => /\ ~IsSubstring(<<"<bq>", "<bq>", "<bq>">>, clean_text(text))
           /\ \A tag \in FenceTags :
                 StartsWithAt(text, 1, <<"<bq>", "<bq>", "<bq>">> \o tag \o <<"\n">>)
                    => clean_text(text) = clean_text(SubSeq(text, Len(tag) + 5, Len(text)))

\* the lines of s that hold an opening brace, trimmed
BraceLines(s) == SelectSeq([i \in 1..Len(Lines(s)) |-> Trim(Lines(s)[i])],
                           LAMBDA l : Contains(l, "{"))

\* C19: once parse_text_response has cleaned the text, every line of the text
\* that holds an opening brace is kept: a line without backquotes is found in
\* the cleaned text as it was (trimmed), and the cleaned text has as many
\* lines holding a brace as the text, whatever heading word they begin with.
C19_BraceLinesKept ==
    (stage \in {"inner", "final", "done"} /\ ~FromStr(text).ok)
        => /\ Len(BraceLines(clean_text(text))) = Len(BraceLines(text))
           /\ \A i \in 1..Len(BraceLines(text)) :
                 Contains(BraceLines(text)[i], "<bq>")
                    \/ BraceLines(clean_text(text))[i] = BraceLines(text)[i]

C19_HeadingLinesWithBraceKept ==
    /\ text = HeadingsAndBraces
    /\ stage = "inner"
    /\ clean_text(text) = <<"D", "i", "a", "g", "n", "o", "s", "t", "i", "c", ":", " ", "{", "\"", "a", "\"", ":", "1", "}", "\n", " ", " ", "A", "c", "t", "i", "o", "n", "s", " ", "{", "\"", "b", "\"", ":", "2", "}">>

\* C20: the advice db_advisor answers with is a projection of the document
\* generate_advice returned: for Raw the value itself; for Structured an
\* object whose keys are diagnostic, actions_recommandees, risques and
\* niveau_confiance, plus sql_suggere and notes_complementaires when the
\* document has them, each with the value the document holds.
C20_FlatteningIsProjection ==
    (stage = "responded" /\ result.kind = "ok")
        => /\ response.status = 200
           /\ response.success
           /\ IF result.doc.variant = "Raw"
              THEN response.advice = result.doc.value
              ELSE /\ response.advice.t = "obj"
                   /\ DOMAIN response.advice.v =
                         {kDiagnostic, kActions, kRisques, kNiveau}
                            \cup {k \in {kSql} : result.doc.sql_suggere # None}
                            \cup {k \in {kNotes} : result.doc.notes_complementaires # None}
                   /\ response.advice.v[kDiagnostic] = result.doc.diagnostic
                   /\ response.advice.v[kActions] = result.doc.actions_recommandees
                   /\ response.advice.v[kRisques] = result.doc.risques
                   /\ response.advice.v[kNiveau] = result.doc.niveau_confiance
                   /\ result.doc.sql_suggere # None
                         => response.advice.v[kSql] = result.doc.sql_suggere
                   /\ result.doc.notes_complementaires # None
                         => response.advice.v[kNotes] = result.doc.notes_complementaires

\* the answer db_advisor gives when generate_advice returns the error f
ErrorResponse(f) == HttpError(ErrorDisplay(f))

\* C21: a timeout is told apart from a transport error: when the error
\* generate_stream returned wraps a timeout, the error differs from the one
\* a connection failure or a read error raised at the same place gives, and
\* so does the answer of db_advisor.
C21_TimeoutToldApart ==
    (stage = "responded" /\ failure.cause = "timeout")
        => \A c \in (IF failure.site = "read" THEN ReadCauses ELSE SendCauses) \ {"timeout"} :
              /\ Failure(failure.site, c) # failure
              /\ ErrorResponse(Failure(failure.site, c)) # response

\* C22: a Structured document returned by clean_and_restructure_response
\* has neither actions_recommandees nor risques null (an empty array stands
\* for a missing value), and its sql_suggere is absent rather than null.
C22_SectionsNeverNull ==
    (pc = "returned" /\ out.variant = "Structured")
        => /\ ~IsNull(out.actions_recommandees)
           /\ ~IsNull(out.risques)
           /\ out.sql_suggere # JNull

CanonicalKeys == {kActions, kRisques, kSql, kNiveau, kNotes}

\* the map m built from the Raw object obj keeps every entry of obj
RawKeepsEntries(obj, m) ==
    /\ \A k \in DOMAIN obj \ (CanonicalKeys \cup {kDiagnostic}) :
          /\ kDiagnostic \in DOMAIN m
          /\ k \in DOMAIN m[kDiagnostic].v
          /\ m[kDiagnostic].v[k] = obj[k]
    /\ (kDiagnostic \in DOMAIN obj /\ IsObj(obj[kDiagnostic]))
          => \A k \in DOMAIN obj[kDiagnostic].v \ HoistedKeys :
                /\ kDiagnostic \in DOMAIN m
                /\ k \in DOMAIN m[kDiagnostic].v
                /\ m[kDiagnostic].v[k] = obj[kDiagnostic].v[k]
    /\ \A k \in DOMAIN obj \cap CanonicalKeys :
          \/ (kDiagnostic \in DOMAIN obj /\ IsObj(obj[kDiagnostic])
                 /\ k \in DOMAIN obj[kDiagnostic].v)
          \/ (k \in DOMAIN m /\ m[k] = obj[k])

\* C23: the map the Raw branch builds from an object discards no entry:
\* every top-level entry that is none of the fields is in the diagnostic
\* object under its own key with its value, every entry of a diagnostic
\* object that is not hoisted is kept with its value, and the fields
\* actions_recommandees, risques, sql_suggere, niveau_confiance and
\* notes_complementaires are copied with their values (a section that
\* diagnostic nests as well left aside).
C23_RawDiscardsNothing ==
    (pc = "call" /\ arg.variant = "Raw" /\ IsObj(arg.value))
        => RawKeepsEntries(arg.value.v, RawRestructured(arg.value.v))

\* the last call was on a Structured document whose diagnostic is an object
\* with hoisted keys only
OnlyHoistedKeys ==
    /\ pc = "returned"
    /\ arg.variant = "Structured"
    /\ IsObj(arg.diagnostic)
    /\ DOMAIN arg.diagnostic.v \subseteq HoistedKeys

\* C24: when every entry of an object diagnostic is one of
\* actions_recommandees, risques, sql_suggere, the document returned has
\* those values at the top level and the diagnostic it was given, unchanged.
C24_EmptiedDiagnosticKept ==
    OnlyHoistedKeys
        => /\ out.variant = "Structured"
           /\ out.diagnostic = arg.diagnostic
           /\ \A k \in DOMAIN arg.diagnostic.v : TopSection(out, k) = arg.diagnostic.v[k]

C24_HoistedAndDiagnosticKept ==
    /\ OnlyHoistedKeys
    /\ DOMAIN arg.diagnostic.v = {kActions, kRisques}
    /\ arg.diagnostic.v[kRisques] = SectionX
    /\ out.risques = SectionX
    /\ out.diagnostic = arg.diagnostic

\* the fragments of the lines ls, one after the other
RECURSIVE LineFragments(_)
LineFragments(ls) ==
    IF ls = <<>> THEN <<>> ELSE ProcessLine(<<>>, Head(ls)) \o LineFragments(Tail(ls))

\* the fragments carried by the lines of the stream p, in the order of the
\* lines
StreamFragments(p) == LineFragments(Lines(from_utf8_lossy(p)))

\* C25: full_content only grows at its end, and when the stream ends it is the
\* concatenation of the fragments of the lines of the stream, in the order of
\* the lines and of the choices of each event.
C25_AppendOnlyOrdered ==
    [][/\ StartsWithAt(full_content', 1, full_content)
       /\ stream_end' = "end" => full_content' = StreamFragments(payload)]_vars

\* the bytes of the payload that the chunks read so far have brought
RECURSIVE TotalLen(_)
TotalLen(cs) == IF cs = <<>> THEN 0 ELSE Len(Head(cs)) + TotalLen(Tail(cs))
Received == SubSeq(payload, 1, Len(payload) - TotalLen(pending))

\* the lines of s that are followed by a line feed
TerminatedLines(s) ==
    IF \E i \in 1..Len(s) : s[i] = "\n"
    THEN Lines(SubSeq(s, 1, CHOOSE i \in 1..Len(s) :
                               s[i] = "\n" /\ \A j \in (i + 1)..Len(s) : s[j] # "\n"))
    ELSE <<>>

\* no character of p takes more than one byte
SingleBytes(p) == \A i \in 1..Len(p) : p[i] \notin {"<c3>", "<a9>", "<ff>"}

\* C26: the lines of the stream go through the per-line logic once and whole:
\* while chunks may still come, full_content holds the fragments of the lines
\* received with their line feed (and at most those of the tail when the
\* tail is already a whole line); when the stream has ended it holds the
\* fragments of all the lines, the unterminated last one included.
C26_WholeLinesOnly ==
    SingleBytes(payload)
        => /\ (phase = "reading" /\ stream_end = "none")
                => full_content \in {LineFragments(TerminatedLines(Received)),
                                     LineFragments(Lines(Received))}
           /\ stream_end = "end" => full_content = LineFragments(Lines(payload))

\* the line is a data line whose payload is the sentinel
IsDoneLine(l) ==
    /\ StartsWithAt(Trim(l), 1, DataPrefix)
    /\ Trim(SubSeq(Trim(l), Len(DataPrefix) + 1, Len(Trim(l)))) = DoneMark

DoneLines(p) == SelectSeq(Lines(p), IsDoneLine)

\* C27: a sentinel line does not end the reading: the loop has been left only
\* if every chunk was read and the transport closed, or if the transport
\* failed, and when it has closed full_content is made
\* of the fragments of all the other lines of the stream, those that come
\* after the sentinel included.
C27_DoneDoesNotEndProcessing ==
    /\ phase \notin {"send", "reading"}
            => \/ stream_end \in {"refused", "error"}
               \/ stream_end = "end" /\ pending = <<>>
    /\ (stream_end = "end" /\ DoneLines(payload) # <<>>)
            => full_content =
                   LineFragments(SelectSeq(Lines(payload), LAMBDA l : ~IsDoneLine(l)))

C27_EventAfterDoneAppended ==
    /\ stream_end = "end"
    /\ payload = DoneThenEvent
    /\ IsDoneLine(Lines(payload)[1])
    /\ full_content = <<"a">>
    /\ sresult = SOk(<<"a">>)

\* the stream is one data line, without carriage return or multi-byte
\* character, that decodes as an event
OneEventStream(p) ==
    /\ SingleBytes(p)
    /\ \A i \in 1..Len(p) : p[i] # "\r"
    /\ Len(Lines(p)) = 1
    /\ StartsWithAt(Trim(Lines(p)[1]), 1, DataPrefix)
    /\ EventOk(FromStrValue(Trim(SubSeq(Trim(Lines(p)[1]), Len(DataPrefix) + 1, Len(Trim(Lines(p)[1]))))))

\* the choices of the event of a one-event stream
StreamChoices(p) ==
    FromStrValue(Trim(SubSeq(Trim(Lines(p)[1]), Len(DataPrefix) + 1, Len(Trim(Lines(p)[1]))))).v.v[kChoices].v

Present(c, k) == k \in DOMAIN c.v /\ c.v[k] # JNull
Fragment(c, k) == IF kContent \in DOMAIN c.v[k].v THEN c.v[k].v[kContent].v ELSE <<>>

\* the delta fragment of every choice that has a delta, the message fragment
\* of every choice that has a message and no delta
RECURSIVE DeltaElseMessage(_)
DeltaElseMessage(cs) ==
    IF cs = <<>> THEN <<>>
    ELSE (IF Present(Head(cs), kDelta) THEN Fragment(Head(cs), kDelta)
          ELSE IF Present(Head(cs), kMessage) THEN Fragment(Head(cs), kMessage)
          ELSE <<>>) \o DeltaElseMessage(Tail(cs))

\* C28: for every choice of a decoded event the delta fragment is appended
\* when the choice has a delta, the message fragment only when it has none;
\* a choice with an empty delta and a message appends nothing and a choice
\* with both appends its delta only.
C28_DeltaBeforeMessage ==
    (stream_end = "end" /\ OneEventStream(payload))
        => full_content = DeltaElseMessage(StreamChoices(payload))

C28_DeltaOnlyThenMessage ==
    /\ stream_end = "end"
    /\ payload = EventBothThenMessage
    /\ Len(StreamChoices(payload)) = 2
    /\ Present(StreamChoices(payload)[1], kDelta)
    /\ Present(StreamChoices(payload)[1], kMessage)
    /\ ~Present(StreamChoices(payload)[2], kDelta)
    /\ full_content = <<"a", "b">>

\* the lines of s, trimmed, the blank ones left out
TrimmedLines(s) == SelectSeq([i \in 1..Len(Lines(s)) |-> Trim(Lines(s)[i])],
                             LAMBDA l : l # <<>>)

\* the trimmed line is one of the section headings, in any letter case
IsBareHeading(l) == \E h \in HeadingTitles : EqIgnoreAsciiCase(l, h)

\* C29: once parse_text_response has cleaned a text without fence, the lines
\* of the cleaned text are the lines of the text other than the bare section
\* headings: a line that only begins with a heading word is kept.
C29_OnlyBareHeadingsRemoved ==
    (stage \in {"inner", "final", "done"} /\ ~FromStr(text).ok /\ ~Contains(text, "<bq>"))
        => TrimmedLines(clean_text(text))
               = SelectSeq(TrimmedLines(text), LAMBDA l : ~IsBareHeading(l))

\* the span of t from its first "{" to its last "}"
OuterSpan(t) == SubSeq(t, FirstBrace(t), LastClose(t))

\* t is a JSON object that decodes as Structured, with text around it that
\* holds no brace
IsWrappedObject(t) ==
    /\ FirstBrace(t) < LastClose(t)
    /\ OuterSpan(t) # t
    /\ FromStr(OuterSpan(t)).ok
    /\ FromStr(OuterSpan(t)).doc.variant = "Structured"

\* what generate_advice returns when the upstream text is the object j alone:
\* the document decoded, restructured once (advisor.rs 350, 363)
DirectResult(j) == OkResult(RestructureStructured(FromStr(j).doc))

\* C30: when the upstream text is a JSON object with prose or fences around
\* it, generate_advice returns the document it returns when the text is the
\* object alone.
C30_WrappingKeepsResult ==
    /\ (stage = "done" /\ FromStr(text).ok /\ FromStr(text).doc.variant = "Structured")
           => result = DirectResult(text)
    /\ (stage = "done" /\ IsWrappedObject(text))
           => result = DirectResult(OuterSpan(text))

====
